---- MODULE Spec2Model ----
(***************************************************************************)
(* Model of the hub scraper (api/scrape_hub.js): the serverless handler,   *)
(* its single-URL branch, URL discovery over the paginated index, the      *)
(* sequential batch loop, fetchDocument with its abort timer, and the      *)
(* text-walk extractors.                                                   *)
(*                                                                         *)
(* Strings are sequences of tokens.  A token is either one whitespace      *)
(* character or an opaque run of non-whitespace characters; URLs are       *)
(* sequences of URL pieces (origin, path prefix, slug).                    *)
(***************************************************************************)
EXTENDS Integers, Sequences, FiniteSets, TLC

VARIABLES
    site,       \* the source site: what each index page serves
    pc,         \* position of the handler (which await it is suspended on)
    urlParam,   \* searchParams.get("url")
    limitParam, \* searchParams.get("limit")
    limit,      \* parsed limit
    page,       \* loop variable of extractInefficiencyUrls
    urlsSet,    \* urlsSet of extractInefficiencyUrls
    urls,       \* urls of the handler (result of discovery)
    i,          \* loop variable of the batch loop
    results,    \* results of the handler
    errors,     \* errors of the handler
    responses,  \* what was sent on res, in order
    fPhase,     \* fetchDocument: "idle", "headers", "body", "done"
    fUrl,       \* fetchDocument: the url being fetched
    fTimer,     \* fetchDocument: timeoutId is armed
    fClock,     \* time since fetchDocument started, relative to FETCH_TIMEOUT_MS
    fOutcome,   \* fetchDocument: what it returned or threw
    inFlight,   \* requests to the source site that are in flight
    fetchLog,   \* every url fetchDocument was called with, in order
    gap,        \* what happened since the previous fetch ended
    indexFailures, \* index page fetches of this request that failed
    doc,        \* extractors: the text nodes of the document, in document order
    label,      \* extractors: labelText / headingText
    out,        \* extractors: what the extractor returned
    dom,        \* extractors: the element tree of the document
    sUrl,       \* slugFromUrl: its argument
    vData,      \* validateScrapedData: its argument
    sPc,        \* save_to_s3 / run_scrape_batch: position (which await is pending)
    sData,      \* the array whose items are uploaded (data, data.items)
    sIdx,       \* index of the item being uploaded, from 0
    sPuts,      \* the s3.putObject calls made, in order, each with its key and state
    sFiles,     \* uploadedFiles: the keys of the uploads that succeeded
    sFailed,    \* failedCount of the batch script
    sAnswer     \* the HTTP response sent, or the exit of the process

vars == <<site, pc, urlParam, limitParam, limit, page, urlsSet, urls, i, results,
          errors, responses, fPhase, fUrl, fTimer, fClock, fOutcome, inFlight,
          fetchLog, gap, indexFailures, doc, label, out, dom, sUrl, vData,
          sPc, sData, sIdx, sPuts, sFiles, sFailed, sAnswer>>

handlerVars == <<pc, urlParam, limitParam, limit, page, urlsSet, urls, i, results,
                 errors, responses>>
fetchVars == <<fPhase, fUrl, fTimer, fClock, fOutcome, inFlight, fetchLog>>
extractVars == <<doc, label, out, dom, sUrl, vData>>
saveVars == <<sPc, sData, sIdx, sPuts, sFiles, sFailed, sAnswer>>

(***************************************************************************)
(* Program constants                                                       *)
(***************************************************************************)
BASE_URL == "https://hub.pointfive.co"
REQUEST_DELAY_MS == 300
FETCH_TIMEOUT_MS == 8000
MAX_PAGES == 30
DEFAULT_LIMIT == 5

\* null, kept apart from every string (strings are sequences of tokens)
Null == <<"#null">>
\* numbers: parseInt yields an integer or NaN
Num(n) == [nan |-> FALSE, val |-> n]
NaN == [nan |-> TRUE, val |-> 0]

(***************************************************************************)
(* Bounds                                                                  *)
(***************************************************************************)
\* index pages with links on the sites of Spec
MaxIndexPages == 2
\* index page fetches the network lets fail during one request
MaxIndexFailures == 1
\* text nodes of the documents of SpecExtract
MaxNodes == 4
\* blocks (headings, lists, sections, paragraphs) of the documents of SpecDom
MaxBlocks == 3

(***************************************************************************)
(* Strings and URLs                                                        *)
(***************************************************************************)
Range(s) == {s[k] : k \in 1..Len(s)}

\* URL pieces and hrefs of the modelled site
INEFF == "/hub/inefficiencies/"
MIRROR_URL == "http://mirror.example"

\* Order of the pieces as JavaScript compares strings (UTF-16 code units):
\* "/about" < "/hub/..." < "a" < "b" < "c" < "http://..." < "https://..."
CodeUnitRank(t) ==
    CASE t = "/about" -> 1
      [] t = INEFF -> 2
      [] t = "a" -> 3
      [] t = "b" -> 4
      [] t = "c" -> 5
      [] t = MIRROR_URL -> 6
      [] t = BASE_URL -> 7
      [] OTHER -> 0

\* a < b for strings, as the default comparison of Array.prototype.sort
RECURSIVE StrLess(_, _)
StrLess(a, b) ==
    IF b = <<>> THEN FALSE
    ELSE IF a = <<>> THEN TRUE
    ELSE IF a[1] = b[1] THEN StrLess(Tail(a), Tail(b))
    ELSE CodeUnitRank(a[1]) < CodeUnitRank(b[1])

\* a relative href whose file name begins with the letters http
HTTP_GUIDE == "http-guide.html"

\* the pieces that are a scheme and a host
Origins == {BASE_URL, MIRROR_URL}

\* href.startsWith("http")
StartsWithHttp(href) == href # <<>> /\ href[1] \in Origins \cup {HTTP_GUIDE}

\* the href begins with a slash
PathAbsolute(href) == href # <<>> /\ href[1] \in {INEFF, "/about", "/docs", "/hub", "/"}

\* new URL(href, BASE_URL).toString(): a path is resolved against the root of BASE_URL
ResolveHref(href) ==
    IF PathAbsolute(href) THEN <<BASE_URL>> \o href ELSE <<BASE_URL, "/">> \o href

\* href.includes("/inefficiencies/")
IncludesInefficiencies(href) == INEFF \in Range(href)

\* href.startsWith("http") ? href : new URL(href, BASE_URL).toString()
FullUrl(href) == IF StartsWithHttp(href) THEN href ELSE ResolveHref(href)

\* indexUrl of page p: page 1 has no query parameter
IndexUrl(p) == IF p = 1 THEN <<BASE_URL, "/hub">>
               ELSE <<BASE_URL, "/hub", "?ffbc0c57_page=", ToString(p)>>

\* Set.prototype.add on a Set kept as its insertion-ordered sequence
SetAdd(set, x) == IF x \in Range(set) THEN set ELSE Append(set, x)

\* insertion of x into the sorted sequence s
RECURSIVE Insert(_, _)
Insert(x, s) ==
    IF s = <<>> THEN <<x>>
    ELSE IF StrLess(s[1], x) THEN <<s[1]>> \o Insert(x, Tail(s))
    ELSE <<x>> \o s

RECURSIVE SortedOf(_)
SortedOf(s) == IF s = <<>> THEN <<>> ELSE Insert(s[1], SortedOf(Tail(s)))

UrlsSortNone(s) == s
\* urls.sort()
UrlsSort(s) == SortedOf(s)

\* array.slice(0, n)
SliceTo(s, n) == SubSeq(s, 1, IF n < Len(s) THEN n ELSE Len(s))

(***************************************************************************)
(* limit parsing                                                           *)
(***************************************************************************)
Digits == {"0", "1", "2", "3", "4", "5", "6", "7", "8", "9"}
DigitVal(c) ==
    CASE c = "0" -> 0 [] c = "1" -> 1 [] c = "2" -> 2 [] c = "3" -> 3 [] c = "4" -> 4
      [] c = "5" -> 5 [] c = "6" -> 6 [] c = "7" -> 7 [] c = "8" -> 8 [] c = "9" -> 9

\* the value of the longest prefix of digits of s, acc the value read so far
RECURSIVE DigitsValue(_, _)
DigitsValue(s, acc) ==
    IF s = <<>> \/ s[1] \notin Digits THEN acc
    ELSE DigitsValue(Tail(s), 10 * acc + DigitVal(s[1]))

RECURSIVE SkipSpaces(_)
SkipSpaces(s) == IF s # <<>> /\ s[1] = " " THEN SkipSpaces(Tail(s)) ELSE s

\* parseInt(s, 10): leading whitespace, an optional sign, then digits; NaN without digits
ParseInt(s) ==
    LET t == SkipSpaces(s)
        neg == t # <<>> /\ t[1] = "-"
        u == IF t # <<>> /\ t[1] \in {"-", "+"} THEN Tail(t) ELSE t
    IN IF u = <<>> \/ u[1] \notin Digits THEN NaN
       ELSE IF neg THEN Num(0 - DigitsValue(u, 0)) ELSE Num(DigitsValue(u, 0))

\* a string is truthy unless it is empty; null is falsy
Truthy(s) == s # Null /\ s # <<>>

\* limitParam ? parseInt(limitParam, 10) : 5
LimitOf(lp) == IF Truthy(lp) THEN ParseInt(lp) ELSE Num(DEFAULT_LIMIT)

\* typeof limit === "number" && limit > 0 ? urls.slice(0, limit) : urls
ApplyLimitOffByOne(sorted, lim) ==
    IF ~lim.nan /\ lim.val > 0 THEN SliceTo(sorted, lim.val + 1) ELSE sorted
ApplyLimit(sorted, lim) ==
    IF ~lim.nan /\ lim.val > 0 THEN SliceTo(sorted, lim.val) ELSE sorted

(***************************************************************************)
(* The source site                                                         *)
(***************************************************************************)
RelHref(slug) == <<INEFF, slug>>
AbsHref(slug) == <<BASE_URL, INEFF, slug>>
MirrorHref(slug) == <<MIRROR_URL, INEFF, slug>>
AboutHref == <<"/about">>

\* the anchors of an index page past the last page with links
NoLinksPage == <<AboutHref>>

\* what index page p of the site serves: pages 1..n-1 serve site.body, page n
\* serves site.last, later pages carry no detail link
SitePage(p) ==
    IF p < site.n THEN site.body
    ELSE IF p = site.n THEN site.last
    ELSE NoLinksPage

IsIndexUrl(url) == Len(url) >= 2 /\ url[1] = BASE_URL /\ url[2] = "/hub"
PageOf(url) == CHOOSE p \in 1..(MAX_PAGES + 1) : url = IndexUrl(p)

\* document.querySelectorAll("a[href]") of the page served at url, as hrefs
AnchorsAt(url) == IF IsIndexUrl(url) THEN SitePage(PageOf(url)) ELSE <<>>

(***************************************************************************)
(* fetchDocument                                                           *)
(***************************************************************************)
NoOutcome == [ok |-> FALSE, anchors |-> <<>>, message |-> <<>>]
Returned(anchors) == [ok |-> TRUE, anchors |-> anchors, message |-> <<>>]
Threw(message) == [ok |-> FALSE, anchors |-> <<>>, message |-> message]

\* `Fetch timeout after ${FETCH_TIMEOUT_MS}ms: ${url}`
TimeoutMessage(url) == <<"Fetch timeout after ", ToString(FETCH_TIMEOUT_MS), "ms: ">> \o url
\* `Failed to fetch ${url}: ${error.message}`
FailedMessage(url, cause) == <<"Failed to fetch ">> \o url \o <<": ", cause>>

Pending == fPhase \in {"headers", "body"}

\* the network may let the pending fetch fail
MayFail == pc = "discover" => indexFailures < MaxIndexFailures

\* fetchDocument(url) up to its first await: the timer is armed, the request leaves
StartFetch(url) ==
    /\ fPhase' = "headers"
    /\ fUrl' = url
    /\ fTimer' = TRUE
    /\ fClock' = "early"
    /\ fOutcome' = NoOutcome
    /\ inFlight' = inFlight \cup {url}
    /\ fetchLog' = Append(fetchLog, url)

\* no fetchDocument call is active
NoFetch ==
    /\ fPhase' = "idle"
    /\ fUrl' = <<>>
    /\ fTimer' = FALSE
    /\ fClock' = "early"
    /\ fOutcome' = NoOutcome
    /\ UNCHANGED <<inFlight, fetchLog>>

\* fetchDocument settles: it returns a document or throws
EndFetch(outcome) ==
    /\ fPhase' = "done"
    /\ fTimer' = FALSE
    /\ fClock' = "early"
    /\ fOutcome' = outcome
    /\ inFlight' = inFlight \ {fUrl}
    /\ gap' = "nodelay"
    /\ UNCHANGED <<fUrl, fetchLog>>

\* the response headers arrive with a 2xx status: clearTimeout, then await resp.text()
ResponseOk ==
    /\ fPhase = "headers"
    /\ fPhase' = "body"
    /\ fTimer' = FALSE
    /\ UNCHANGED <<fUrl, fClock, fOutcome, inFlight, fetchLog, gap>>
    /\ UNCHANGED <<saveVars, site, indexFailures, handlerVars, extractVars>>

\* the response headers arrive with a non-2xx status: clearTimeout, throw
ResponseNotOk ==
    /\ MayFail
    /\ fPhase = "headers"
    /\ EndFetch(Threw(FailedMessage(fUrl, "HTTP 500 Internal Server Error")))
    /\ UNCHANGED <<saveVars, site, indexFailures, handlerVars, extractVars>>

\* fetch() rejects before any response (connection refused, reset, DNS)
FetchRejects ==
    /\ MayFail
    /\ fPhase = "headers"
    /\ EndFetch(Threw(FailedMessage(fUrl, "fetch failed")))
    /\ UNCHANGED <<saveVars, site, indexFailures, handlerVars, extractVars>>

\* the timer fires: controller.abort() cancels the request, fetch() rejects with AbortError
TimerFiresKeepsRequest ==
    /\ MayFail
    /\ fTimer
    /\ fClock = "due"
    /\ fPhase' = "done"
    /\ fTimer' = FALSE
    /\ fClock' = "early"
    /\ fOutcome' = Threw(TimeoutMessage(fUrl))
    /\ gap' = "nodelay"
    /\ UNCHANGED <<fUrl, fetchLog, inFlight>>
    /\ UNCHANGED <<saveVars, site, indexFailures, handlerVars, extractVars>>

TimerFires ==
    /\ MayFail
    /\ fTimer
    /\ fClock = "due"
    /\ EndFetch(Threw(TimeoutMessage(fUrl)))
    /\ UNCHANGED <<saveVars, site, indexFailures, handlerVars, extractVars>>

\* resp.text() resolves, the html is parsed
BodyArrives ==
    /\ fPhase = "body"
    /\ EndFetch(Returned(AnchorsAt(fUrl)))
    /\ UNCHANGED <<saveVars, site, indexFailures, handlerVars, extractVars>>

\* resp.text() rejects (the connection breaks while the body is read)
BodyFails ==
    /\ MayFail
    /\ fPhase = "body"
    /\ EndFetch(Threw(FailedMessage(fUrl, "terminated")))
    /\ UNCHANGED <<saveVars, site, indexFailures, handlerVars, extractVars>>

\* Time passes while a fetch is pending.  "early": less than FETCH_TIMEOUT_MS since
\* the fetch started; "due": FETCH_TIMEOUT_MS have elapsed; "late": more than that.
\* An armed timer fires when it is due, so time does not pass it by.
TimePasses ==
    /\ Pending
    /\ \/ fClock = "early" /\ fClock' = "due"
       \/ fClock = "due" /\ ~fTimer /\ fClock' = "late"
    /\ UNCHANGED <<fPhase, fUrl, fTimer, fOutcome, inFlight, fetchLog, gap>>
    /\ UNCHANGED <<saveVars, site, indexFailures, handlerVars, extractVars>>

(***************************************************************************)
(* Text-walk extractors.  A document is the sequence of the nodeValues of   *)
(* its text nodes in document order (the order of the TreeWalker).         *)
(***************************************************************************)
Whitespace == {" ", "\n"}

RECURSIVE TrimStart(_)
TrimStart(s) == IF s # <<>> /\ s[1] \in Whitespace THEN TrimStart(Tail(s)) ELSE s

RECURSIVE TrimEnd(_)
TrimEnd(s) ==
    IF s # <<>> /\ s[Len(s)] \in Whitespace THEN TrimEnd(SubSeq(s, 1, Len(s) - 1)) ELSE s

\* String.prototype.trim
Trim(s) == TrimEnd(TrimStart(s))

\* textValue(node): "" for an empty nodeValue, else the trimmed nodeValue
TextValue(nodeValue) == IF nodeValue = <<>> THEN <<>> ELSE Trim(nodeValue)

\* SECTION_TITLES
SECTION_TITLES ==
    { <<"Explanation">>,
      <<"Relevant", " ", "Billing", " ", "Model">>,
      <<"Detection">>,
      <<"Remediation">>,
      <<"Relevant", " ", "Documentation">> }

\* the loop of findFieldValue from node k on, seenLabel = seen
RECURSIVE FindFieldFrom(_, _, _, _)
FindFieldFrom(d, labelText, k, seen) ==
    IF k > Len(d) THEN Null
    ELSE LET value == TextValue(d[k])
         IN IF value = <<>> THEN FindFieldFrom(d, labelText, k + 1, seen)
            ELSE IF seen THEN value
            ELSE FindFieldFrom(d, labelText, k + 1, value = labelText)

FindFieldValueLastLabel(d, labelText) ==
    LET hits == {k \in 1..Len(d) : TextValue(d[k]) = labelText}
    IN IF hits = {} THEN Null
       ELSE FindFieldFrom(d, labelText, CHOOSE k \in hits : \A j \in hits : j <= k, FALSE)
\* findFieldValue(document, labelText)
FindFieldValue(d, labelText) == FindFieldFrom(d, labelText, 1, FALSE)

StopsAtAnyTitle(value, headingText) == value \in SECTION_TITLES
\* SECTION_TITLES.includes(value) && value !== headingText
StopsSection(value, headingText) == value \in SECTION_TITLES /\ value # headingText

\* the loop of extractSectionParagraph from node k on: collected at its end
RECURSIVE CollectFrom(_, _, _, _, _)
CollectFrom(d, headingText, k, inSection, collected) ==
    IF k > Len(d) THEN collected
    ELSE LET value == TextValue(d[k])
         IN IF value = <<>> THEN CollectFrom(d, headingText, k + 1, inSection, collected)
            ELSE IF ~inSection
            THEN CollectFrom(d, headingText, k + 1, value = headingText, collected)
            ELSE IF StopsSection(value, headingText) THEN collected
            ELSE CollectFrom(d, headingText, k + 1, TRUE, Append(collected, value))

\* Array.prototype.join(" ")
RECURSIVE JoinSpace(_)
JoinSpace(parts) ==
    IF parts = <<>> THEN <<>>
    ELSE IF Len(parts) = 1 THEN parts[1]
    ELSE parts[1] \o <<" ">> \o JoinSpace(Tail(parts))

\* s.replace(/\s+/g, " ")
RECURSIVE CollapseSpaces(_)
CollapseSpaces(s) ==
    IF s = <<>> THEN <<>>
    ELSE IF s[1] \in Whitespace
    THEN <<" ">> \o CollapseSpaces(TrimStart(s))
    ELSE <<s[1]>> \o CollapseSpaces(Tail(s))

\* extractSectionParagraph(document, headingText)
ExtractSectionParagraph(d, headingText) ==
    LET collected == CollectFrom(d, headingText, 1, FALSE, <<>>)
    IN IF collected = <<>> THEN Null
       ELSE Trim(CollapseSpaces(JoinSpace(collected)))

(***************************************************************************)
(* Element-tree extractors.  The tree below document.body is the sequence  *)
(* of its nodes in document order, each with its depth (the children of    *)
(* body have depth 1): the parent of a node is the nearest node before it  *)
(* that is one level up, its descendants are the nodes after it for as     *)
(* long as they are deeper.                                                *)
(***************************************************************************)
Element(tag, depth) == [tag |-> tag, depth |-> depth, value |-> <<>>, href |-> Null]
TextNode(value, depth) == [tag |-> "#text", depth |-> depth, value |-> value, href |-> Null]
\* <a href="...">; an anchor without the attribute is Element("a", depth)
Anchor(href, depth) == [tag |-> "a", depth |-> depth, value |-> <<>>, href |-> href]

\* nodes other than the nodes of the tree: document.body, document.documentElement,
\* and the null that ends the parentElement chain
Body == 0
Html == 0 - 1
NoElement == 0 - 2

\* the descendants of node k, in document order they are k+1, k+2, ...
Descendants(d, k) ==
    IF k \in {Body, Html} THEN 1..Len(d)
    ELSE {j \in (k + 1)..Len(d) : \A m \in (k + 1)..j : d[m].depth > d[k].depth}

\* node.parentElement
ParentElement(d, k) ==
    IF k = Html THEN NoElement
    ELSE IF k = Body THEN Html
    ELSE IF d[k].depth = 1 THEN Body
    ELSE CHOOSE j \in 1..(k - 1) :
            /\ d[j].depth = d[k].depth - 1
            /\ \A m \in (j + 1)..(k - 1) : d[m].depth >= d[k].depth

\* the nodes of the tree, in document order
NodesOf(d) == <<>> \o [k \in 1..Len(d) |-> k]

\* a set of nodes as the sequence of its members in document order
InOrder(d, nodes) == SelectSeq(NodesOf(d), LAMBDA k : k \in nodes)

\* the text nodes the TreeWalker of document.body visits, in order
TextNodesOf(d) == InOrder(d, {k \in 1..Len(d) : d[k].tag = "#text"})

\* the nodeValues the TreeWalker of document.body visits, in order
TextValuesOf(d) == <<>> \o [k \in 1..Len(TextNodesOf(d)) |-> d[TextNodesOf(d)[k]].value]

\* element.querySelectorAll(tag)
QuerySelectorAll(d, k, tag) == InOrder(d, {j \in Descendants(d, k) : d[j].tag = tag})

\* node.textContent: the nodeValues of the text nodes below it, concatenated
RECURSIVE ConcatValues(_, _)
ConcatValues(d, nodes) ==
    IF nodes = <<>> THEN <<>>
    ELSE d[nodes[1]].value \o ConcatValues(d, Tail(nodes))

TextContent(d, k) ==
    ConcatValues(d, InOrder(d, {j \in Descendants(d, k) : d[j].tag = "#text"}))

FoundHeadingOrFirst(d, headingText) ==
    LET hits == {k \in 1..Len(d) : d[k].tag = "#text" /\ TextValue(d[k].value) = headingText}
        texts == {k \in 1..Len(d) : d[k].tag = "#text"}
    IN IF hits # {} THEN CHOOSE k \in hits : \A j \in hits : k <= j
       ELSE IF texts # {} THEN CHOOSE k \in texts : \A j \in texts : k <= j
       ELSE NoElement
\* the first loop of extractSectionList: the first text node whose trimmed value
\* is headingText, NoElement when there is none
FoundHeading(d, headingText) ==
    LET hits == {k \in 1..Len(d) : /\ d[k].tag = "#text"
                                    /\ TextValue(d[k].value) # <<>>
                                    /\ TextValue(d[k].value) = headingText}
    IN IF hits = {} THEN NoElement ELSE CHOOSE k \in hits : \A j \in hits : k <= j

\* while (container && !container.querySelector('ul')) container = container.parentElement
RECURSIVE ContainerFrom(_, _)
ContainerFrom(d, container) ==
    IF container = NoElement THEN NoElement
    ELSE IF QuerySelectorAll(d, container, "ul") # <<>> THEN container
    ELSE ContainerFrom(d, ParentElement(d, container))

\* the listItems.forEach of extractSectionList: items after the li elements lis
RECURSIVE ItemTexts(_, _)
ItemTexts(d, lis) ==
    IF lis = <<>> THEN <<>>
    ELSE LET text == Trim(TextContent(d, lis[1]))
         IN (IF text # <<>> THEN <<text>> ELSE <<>>) \o ItemTexts(d, Tail(lis))

\* ul.querySelectorAll('li')
ListItemsOf(d, ul) == QuerySelectorAll(d, ul, "li")

\* element.querySelector(tag): the first match in document order
QuerySelector(d, k, tag) ==
    IF QuerySelectorAll(d, k, tag) = <<>> THEN NoElement ELSE QuerySelectorAll(d, k, tag)[1]

\* extractSectionList(document, headingText)
ExtractSectionList(d, headingText) ==
    LET foundHeading == FoundHeading(d, headingText)
    IN IF foundHeading = NoElement THEN <<>>
       ELSE LET container == ContainerFrom(d, ParentElement(d, foundHeading))
            IN IF container = NoElement THEN <<>>
               ELSE ItemTexts(d, ListItemsOf(d, QuerySelector(d, container, "ul")))

RELEVANT_DOCUMENTATION == <<"Relevant", " ", "Documentation">>

AlreadyCollectedNever(links, url) == FALSE
\* links.find(x => x.url === url)
AlreadyCollected(links, url) == \E k \in 1..Len(links) : links[k].url = url

\* (a.textContent || "").trim() || null
AnchorTitle(d, a) == IF Trim(TextContent(d, a)) = <<>> THEN Null ELSE Trim(TextContent(d, a))

\* the anchors.forEach of extractDocumentationLinks: links after the anchors as
RECURSIVE AddLinks(_, _, _)
AddLinks(d, links, as) ==
    IF as = <<>> THEN links
    ELSE LET href == d[as[1]].href
             url == FullUrl(href)
             title == AnchorTitle(d, as[1])
         IN IF href = <<>> \/ AlreadyCollected(links, url)
            THEN AddLinks(d, links, Tail(as))
            ELSE AddLinks(d, Append(links, [title |-> title, url |-> url]), Tail(as))

\* parentEl.querySelectorAll("a[href]")
AnchorsWithHref(d, k) == InOrder(d, {j \in Descendants(d, k) : d[j].tag = "a" /\ d[j].href # Null})

\* the loop of extractDocumentationLinks over the text nodes still to visit
RECURSIVE LinksFrom(_, _, _, _)
LinksFrom(d, nodes, afterHeading, links) ==
    IF nodes = <<>> THEN links
    ELSE LET value == TextValue(d[nodes[1]].value)
         IN IF value = <<>> THEN LinksFrom(d, Tail(nodes), afterHeading, links)
            ELSE IF ~afterHeading
            THEN LinksFrom(d, Tail(nodes), value = RELEVANT_DOCUMENTATION, links)
            ELSE IF StopsSection(value, RELEVANT_DOCUMENTATION) THEN links
            ELSE LinksFrom(d, Tail(nodes), TRUE,
                           AddLinks(d, links,
                                    AnchorsWithHref(d, ParentElement(d, nodes[1]))))

\* extractDocumentationLinks(document)
ExtractDocumentationLinks(d) == LinksFrom(d, TextNodesOf(d), FALSE, <<>>)

(***************************************************************************)
(* Parts of parsed pages                                                   *)
(***************************************************************************)
\* the nodes one level deeper
RECURSIVE Shift(_)
Shift(nodes) ==
    IF nodes = <<>> THEN <<>>
    ELSE <<[nodes[1] EXCEPT !.depth = @ + 1]>> \o Shift(Tail(nodes))

\* <div>nodes</div>
Wrapped(nodes) == <<Element("div", 1)>> \o Shift(nodes)

\* <h2>text</h2>
HeadingBlock(text) == <<Element("h2", 1), TextNode(text, 2)>>

\* <p>text</p>
ParagraphBlock(text) == <<Element("p", 1), TextNode(text, 2)>>

RECURSIVE ListItemNodes(_)
ListItemNodes(items) ==
    IF items = <<>> THEN <<>>
    ELSE <<Element("li", 2), TextNode(items[1], 3)>> \o ListItemNodes(Tail(items))

\* <ul><li>item</li>...</ul>
ListBlock(items) == <<Element("ul", 1)>> \o ListItemNodes(items)

\* a list of three items and an item of whitespace only
DetectionItems ==
    << <<"tag", " ", "X">>, <<" ", "\n">>, <<"\n", "tag", " ", "Y", " ">>, <<"tag", " ", "Z">> >>

\* <ul><li>stop <ul><li>now</li></ul></li></ul>
NestedListBlock ==
    <<Element("ul", 1), Element("li", 2), TextNode(<<"stop", " ">>, 3),
      Element("ul", 3), Element("li", 4), TextNode(<<"now">>, 5)>>

\* a paragraph with text of its own before and after its anchors: a relative
\* href, the same page as an absolute href, a relative href that begins with
\* http, an empty href, an anchor without href, an anchor without text, a
\* relative href without a leading slash
LinksBlock ==
    <<Element("p", 1), TextNode(<<"See", " ">>, 2),
      Anchor(<<"/docs">>, 2), TextNode(<<" ", "Guide", "\n">>, 3),
      Anchor(<<BASE_URL, "/docs">>, 2), TextNode(<<"Guide", " ", "again">>, 3),
      Anchor(<<HTTP_GUIDE>>, 2), TextNode(<<"Http">>, 3),
      Anchor(<<>>, 2), TextNode(<<"empty">>, 3),
      Element("a", 2), TextNode(<<"bare">>, 3),
      Anchor(<<MIRROR_URL, "/docs">>, 2),
      Anchor(<<"guide">>, 2), TextNode(<<"Guide">>, 3),
      TextNode(<<".">>, 2)>>

\* <div><a href="/about">Intro</a><h2>Relevant Documentation</h2>see below
\* <h2>Detection</h2><a href="/hub">Next</a></div>: a section whose text lies
\* directly in the element that also holds the neighbouring anchors
StrayTextBlock ==
    <<Element("div", 1),
      Anchor(<<"/about">>, 2), TextNode(<<"Intro">>, 3),
      Element("h2", 2), TextNode(RELEVANT_DOCUMENTATION, 3),
      TextNode(<<"see", " ", "below">>, 2),
      Element("h2", 2), TextNode(<<"Detection">>, 3),
      Anchor(<<"/hub">>, 2), TextNode(<<"Next">>, 3)>>

(***************************************************************************)
(* Records and responses                                                   *)
(***************************************************************************)
\* the pieces that begin a query string or a fragment
QueryPieces == {"?ffbc0c57_page=", "?ref=hub", "#top"}

\* a URL piece as slashes and segment names
PathTokens(piece) ==
    CASE piece = INEFF -> <<"/", "hub", "/", "inefficiencies", "/">>
      [] piece = "/hub" -> <<"/", "hub">>
      [] piece = "/about" -> <<"/", "about">>
      [] piece = "/docs" -> <<"/", "docs">>
      [] piece = "//" -> <<"/", "/">>
      [] OTHER -> <<piece>>

\* the path of the pieces after the origin, up to the query string or fragment
RECURSIVE PathOf(_)
PathOf(pieces) ==
    IF pieces = <<>> \/ pieces[1] \in QueryPieces THEN <<>>
    ELSE PathTokens(pieces[1]) \o PathOf(Tail(pieces))

\* new URL(url) throws unless url is a string with a scheme
CanParse(url) == url # Null /\ url # <<>> /\ url[1] \in Origins

\* u.pathname: the path of an http(s) URL is never empty
Pathname(url) == IF PathOf(Tail(url)) = <<>> THEN <<"/">> ELSE PathOf(Tail(url))

\* path.split("/"), then parts[parts.length - 1]: what follows the last slash
RECURSIVE LastPart(_)
LastPart(path) ==
    IF path = <<>> \/ path[Len(path)] = "/" THEN <<>>
    ELSE LastPart(SubSeq(path, 1, Len(path) - 1)) \o <<path[Len(path)]>>

\* path.replace(/\/+$/, "")
RECURSIVE StripTrailingSlashes(_)
StripTrailingSlashes(parts) ==
    IF parts # <<>> /\ parts[Len(parts)] = "/"
    THEN StripTrailingSlashes(SubSeq(parts, 1, Len(parts) - 1))
    ELSE parts

SlugFromUrlKeepsSlashes(url) == IF CanParse(url) THEN LastPart(Pathname(url)) ELSE url
\* slugFromUrl(url)
SlugFromUrl(url) ==
    IF CanParse(url) THEN LastPart(StripTrailingSlashes(Pathname(url))) ELSE url

\* a value that is neither null nor a string (a number), kept apart from every string
NonString == <<"#number">>

\* typeof v === 'string'
IsString(v) == v # Null /\ v # NonString

\* a value that may be an array: Array.isArray(v) is v.isArray
JsArray(items) == [isArray |-> TRUE, items |-> items]
NotAnArray == [isArray |-> FALSE, items |-> <<>>]

\* v ?? default
NullishOr(v, default) == IF v = Null THEN default ELSE v

ArrayOrNull(v) == IF v.isArray /\ v.items # <<>> THEN v ELSE NotAnArray
\* Array.isArray(v) ? v : []
ArrayOrEmpty(v) == IF v.isArray THEN v ELSE JsArray(<<>>)

\* the decimal digits of n
RECURSIVE DecimalOf(_)
DecimalOf(n) ==
    LET last == CHOOSE c \in Digits : DigitVal(c) = n % 10
    IN IF n < 10 THEN <<last>> ELSE DecimalOf(n \div 10) \o <<last>>

\* the day of the clock readings of the model, as an ISO 8601 date and "T"
ISO_DAY == "2026-11-01T"

\* new Date(t).toISOString(), t the milliseconds since the start of that day
ToISOString(t) == <<ISO_DAY>> \o DecimalOf(t) \o <<"Z">>

\* Date.parse(s): the milliseconds of an ISO string, NaN for any other string here
DateParse(s) ==
    IF /\ Len(s) >= 3
       /\ s[1] = ISO_DAY
       /\ s[Len(s)] = "Z"
       /\ \A k \in 2..(Len(s) - 1) : s[k] \in Digits
    THEN Num(DigitsValue(SubSeq(s, 2, Len(s) - 1), 0))
    ELSE NaN

ORIGIN == "pointfive_cloud_efficiency_hub"

\* mapToSchema(raw), now the reading of the clock
MapToSchema(raw, now) ==
    [id |-> NullishOr(raw.id, Null),
     title |-> NullishOr(raw.title, Null),
     author |-> NullishOr(raw.author, Null),
     service_category |-> NullishOr(raw.service_category, Null),
     cloud_provider |-> NullishOr(raw.cloud_provider, Null),
     service_name |-> NullishOr(raw.service_name, Null),
     inefficiency_type |-> NullishOr(raw.inefficiency_type, Null),
     explanation |-> NullishOr(raw.explanation, <<>>),
     billing_model |-> NullishOr(raw.billing_model, <<>>),
     detection_signals |-> ArrayOrEmpty(raw.detection_signals),
     remediation_actions |-> ArrayOrEmpty(raw.remediation_actions),
     documentation_links |-> ArrayOrEmpty(raw.documentation_links),
     tags |-> ArrayOrEmpty(raw.tags),
     source |-> [url |-> NullishOr(raw.source.url, Null), origin |-> ORIGIN],
     scraped_at |-> NullishOr(raw.scraped_at, ToISOString(now))]

\* the title of parseInefficiencyDetail: the text of the first h1, else the first
\* non-empty text of the body, else null
TitleOfFirstText(d) ==
    LET texts == SelectSeq(TextValuesOf(d), LAMBDA v : TextValue(v) # <<>>)
    IN IF texts # <<>> THEN TextValue(texts[1]) ELSE Null
TitleOf(d) ==
    LET h1 == QuerySelector(d, Html, "h1")
        texts == SelectSeq(TextValuesOf(d), LAMBDA v : TextValue(v) # <<>>)
    IN IF h1 # NoElement /\ TextContent(d, h1) # <<>> THEN Trim(TextContent(d, h1))
       ELSE IF texts # <<>> THEN TextValue(texts[1])
       ELSE Null

\* the loop over h1.nextSibling of parseInefficiencyDetail, sibs the siblings left
RECURSIVE AuthorFrom(_, _, _)
AuthorFrom(d, sibs, title) ==
    IF sibs = <<>> THEN Null
    ELSE LET node == sibs[1]
             val == IF d[node].tag = "#text" THEN TextValue(d[node].value)
                    ELSE Trim(TextContent(d, node))
         IN IF /\ val # <<>>
               /\ val \notin SECTION_TITLES
               /\ (d[node].tag = "#text" \/ val # title)
            THEN val
            ELSE AuthorFrom(d, Tail(sibs), title)

\* the author of parseInefficiencyDetail
AuthorOf(d, title) ==
    LET h1 == QuerySelector(d, Html, "h1")
    IN IF h1 = NoElement THEN Null
       ELSE AuthorFrom(d,
                       InOrder(d, {j \in (h1 + 1)..Len(d) :
                                     ParentElement(d, j) = ParentElement(d, h1)}),
                       title)

\* what parseInefficiencyDetail reads from document d, from the title to the
\* documentation links
ExtractFields(d) ==
    LET title == TitleOf(d)
        texts == TextValuesOf(d)
    IN [title |-> title,
        author |-> AuthorOf(d, title),
        service_category |-> FindFieldValue(texts, <<"Service", " ", "Category">>),
        cloud_provider |-> FindFieldValue(texts, <<"Cloud", " ", "Provider">>),
        service_name |-> FindFieldValue(texts, <<"Service", " ", "Name">>),
        inefficiency_type |-> FindFieldValue(texts, <<"Inefficiency", " ", "Type">>),
        explanation |-> ExtractSectionParagraph(texts, <<"Explanation">>),
        billing_model |->
            ExtractSectionParagraph(texts, <<"Relevant", " ", "Billing", " ", "Model">>),
        detection_signals |-> ExtractSectionList(d, <<"Detection">>),
        remediation_actions |-> ExtractSectionList(d, <<"Remediation">>),
        documentation_links |-> ExtractDocumentationLinks(d)]

\* the record of parseInefficiencyDetail(url) from the fields read, mapped to the schema
AssembleRecord(url, fields, now) ==
    MapToSchema(
        [id |-> SlugFromUrl(url),
         title |-> fields.title,
         author |-> fields.author,
         service_category |-> fields.service_category,
         cloud_provider |-> fields.cloud_provider,
         service_name |-> fields.service_name,
         inefficiency_type |-> fields.inefficiency_type,
         explanation |-> fields.explanation,
         billing_model |-> fields.billing_model,
         detection_signals |-> JsArray(fields.detection_signals),
         remediation_actions |-> JsArray(fields.remediation_actions),
         documentation_links |-> JsArray(fields.documentation_links),
         tags |-> JsArray(<<>>),
         source |-> [url |-> url, origin |-> ORIGIN],
         scraped_at |-> ToISOString(now)],
        now)

\* parseInefficiencyDetail(url) once fetchDocument has returned document d
ParseInefficiencyDetail(url, d, now) == AssembleRecord(url, ExtractFields(d), now)

\* the data.documentation_links.forEach of validateScrapedData from index idx on
RECURSIVE LinkErrors(_, _)
LinkErrors(links, idx) ==
    IF idx >= Len(links) THEN <<>>
    ELSE (IF Truthy(links[idx + 1].url) /\ ~StartsWithHttp(links[idx + 1].url)
          THEN << <<"Invalid documentation link URL at index ", ToString(idx)>> >>
          ELSE <<>>)
         \o LinkErrors(links, idx + 1)

\* !data.scraped_at || isNaN(Date.parse(data.scraped_at))
ScrapedAtInvalid(scraped_at) == ~Truthy(scraped_at) \/ DateParse(scraped_at).nan

\* validateScrapedData(data)
ValidateScrapedData(data) ==
    LET errs ==
            (IF ~Truthy(data.id) \/ ~IsString(data.id)
             THEN << <<"Missing or invalid id">> >> ELSE <<>>)
            \o (IF ~Truthy(data.title) \/ ~IsString(data.title)
                THEN << <<"Missing or invalid title">> >> ELSE <<>>)
            \o (IF Truthy(data.source.url) /\ ~StartsWithHttp(data.source.url)
                THEN << <<"Invalid source URL format">> >> ELSE <<>>)
            \o (IF data.documentation_links.isArray
                THEN LinkErrors(data.documentation_links.items, 0) ELSE <<>>)
            \o (IF ScrapedAtInvalid(data.scraped_at)
                THEN << <<"Missing or invalid scraped_at timestamp">> >> ELSE <<>>)
    IN [isValid |-> errs = <<>>, errors |-> errs]

\* a detail page with every part: title, author, fields, the sections with
\* their lists as siblings in the body, documentation links
FullPage ==
    <<Element("h1", 1), TextNode(<<"\n", "Idle", " ", "EC2", " ">>, 2),
      Element("p", 1), TextNode(<<"Ada">>, 2),
      Element("div", 1),
      Element("span", 2), TextNode(<<"Cloud", " ", "Provider">>, 3),
      Element("span", 2), TextNode(<<" ", "AWS", "\n">>, 3)>>
    \o HeadingBlock(<<"Explanation">>) \o ParagraphBlock(<<"idle", " ", "nodes">>)
    \o HeadingBlock(<<"Detection">>) \o ListBlock(DetectionItems)
    \o HeadingBlock(<<"Remediation">>) \o ListBlock(<< <<"resize">> >>)
    \o HeadingBlock(RELEVANT_DOCUMENTATION) \o LinksBlock

\* a page with a title and a paragraph and no section
PlainPage ==
    <<Element("h1", 1), TextNode(<<"Hub">>, 2)>> \o ParagraphBlock(<<"idle", " ", "nodes">>)

\* a page with an empty body
EmptyPage == <<>>

\* what parseInefficiencyDetail reads from each of these pages
FullPageFields == ExtractFields(FullPage)
PlainPageFields == ExtractFields(PlainPage)
EmptyPageFields == ExtractFields(EmptyPage)

\* what parseInefficiencyDetail reads from the document the site serves at url:
\* the full page for slug a, the empty page for slug b, the plain page elsewhere
DetailFields(url) ==
    IF url[Len(url)] = "a" THEN FullPageFields
    ELSE IF url[Len(url)] = "b" THEN EmptyPageFields
    ELSE PlainPageFields

\* new Date(): the milliseconds on the clock, which advances with every fetch
Now == Len(fetchLog)

\* await parseInefficiencyDetail(url) when fetchDocument(url) has returned
DetailRecord(url) == AssembleRecord(url, DetailFields(url), Now)

\* no record (the response carries an error, or a batch)
NoRecord ==
    [id |-> Null, title |-> Null, author |-> Null, service_category |-> Null,
     cloud_provider |-> Null, service_name |-> Null, inefficiency_type |-> Null,
     explanation |-> Null, billing_model |-> Null, detection_signals |-> NotAnArray,
     remediation_actions |-> NotAnArray, documentation_links |-> NotAnArray,
     tags |-> NotAnArray, source |-> [url |-> Null, origin |-> ORIGIN],
     scraped_at |-> Null]

\* res.status(200).send(JSON.stringify(record))
RecordResponse(record) ==
    [status |-> 200, error |-> "", details |-> <<>>, record |-> record,
     count |-> 0, total |-> 0, failed |-> 0, urls |-> <<>>, items |-> <<>>,
     errors |-> <<>>]

\* res.status(500).json({error, url, details, requestId})
ErrorResponse(error, details) ==
    [status |-> 500, error |-> error, details |-> details, record |-> NoRecord,
     count |-> 0, total |-> 0, failed |-> 0, urls |-> <<>>, items |-> <<>>,
     errors |-> <<>>]

\* res.status(200).send(JSON.stringify({count, total, failed, urls, items, errors}));
\* errors is left out of the JSON when it is empty, kept here as the empty sequence
BatchResponse(us, rs, es) ==
    [status |-> 200, error |-> "", details |-> <<>>, record |-> NoRecord,
     count |-> Len(rs), total |-> Len(us), failed |-> Len(es), urls |-> us,
     items |-> rs, errors |-> es]

(***************************************************************************)
(* extractInefficiencyUrls                                                 *)
(***************************************************************************)
\* the anchors.forEach of one index page: urlsSet after it
RECURSIVE AddAnchors(_, _)
AddAnchors(set, anchors) ==
    IF anchors = <<>> THEN set
    ELSE AddAnchors(IF IncludesInefficiencies(anchors[1])
                    THEN SetAdd(set, FullUrl(anchors[1]))
                    ELSE set,
                    Tail(anchors))

\* foundOnThisPage after the anchors.forEach
RECURSIVE FoundOnPage(_)
FoundOnPage(anchors) ==
    IF anchors = <<>> THEN 0
    ELSE (IF IncludesInefficiencies(anchors[1]) THEN 1 ELSE 0) + FoundOnPage(Tail(anchors))

\* what extractInefficiencyUrls returns once its loop has ended with urlsSet = set
DiscoveredUrls(set, lim) == ApplyLimit(UrlsSort(set), lim)

(***************************************************************************)
(* The handler (module.exports)                                            *)
(***************************************************************************)
NeedsDelayNever(idx) == FALSE
\* if (i > 0) await sleep(REQUEST_DELAY_MS)
NeedsDelay(idx) == idx > 0

NextIndexRetry(idx, ok) == IF ok THEN idx + 1 ELSE idx
\* the i++ of the batch loop, taken after a success and after a failure alike
NextIndex(idx, ok) == idx + 1

ErrorsAfterAbort(es, url, message, idx) == es
\* errors.push({url, error: error.message, index: i + 1})
ErrorsAfter(es, url, message, idx) ==
    Append(es, [url |-> url, error |-> message, index |-> idx + 1])

ResultsPushIfValid(rs, record, validation) ==
    IF validation.isValid THEN Append(rs, record) ELSE rs
\* results.push(record), after validateScrapedData(record) and its warning
ResultsPush(rs, record, validation) == Append(rs, record)

\* the top of the batch loop with i = idx: leave the loop and answer, or sleep, or fetch
BatchLoopTop(idx, us, rs, es) ==
    IF idx < Len(us)
    THEN /\ responses' = responses
         /\ IF NeedsDelay(idx)
            THEN pc' = "batch_sleep" /\ NoFetch
            ELSE pc' = "batch" /\ StartFetch(us[idx + 1])
    ELSE /\ responses' = Append(responses, BatchResponse(us, rs, es))
         /\ pc' = "finished"
         /\ NoFetch

\* extractInefficiencyUrls has returned us: results and errors start empty, i = 0
EnterBatch(us) ==
    /\ urls' = us
    /\ results' = <<>>
    /\ errors' = <<>>
    /\ i' = 0
    /\ BatchLoopTop(0, us, <<>>, <<>>)

\* the top of the discovery loop with page = p
DiscoverLoopTop(p, set) ==
    /\ page' = p
    /\ urlsSet' = set
    /\ IF p <= MAX_PAGES
       THEN /\ pc' = "discover"
            /\ StartFetch(IndexUrl(p))
            /\ UNCHANGED <<urls, i, results, errors, responses>>
       ELSE EnterBatch(DiscoveredUrls(set, limit))

SingleUrlModeNever(up) == FALSE
\* if (urlParam)
SingleUrlMode(up) == Truthy(up)

\* The handler from its first line to its first await: the parameters are read,
\* then either the single page or the first index page is fetched.
HandleRequest(up, lp) ==
    /\ pc = "idle"
    /\ urlParam' = up
    /\ limitParam' = lp
    /\ limit' = LimitOf(lp)
    /\ IF SingleUrlMode(up)
       THEN /\ pc' = "single"
            /\ StartFetch(up)
            /\ UNCHANGED <<page, urlsSet, urls, i, results, errors, responses>>
       ELSE /\ pc' = "discover"
            /\ page' = 1
            /\ urlsSet' = <<>>
            /\ StartFetch(IndexUrl(1))
            /\ UNCHANGED <<urls, i, results, errors, responses>>
    /\ UNCHANGED <<saveVars, site, gap, indexFailures, extractVars>>

\* the answer of the single URL branch for record, after validateScrapedData(record)
\* and its warning
SingleRecordResponse(record, validation) == RecordResponse(record)

\* single URL branch after await parseInefficiencyDetail(urlParam): the record is
\* validated, a warning is logged if it is invalid, and the record is sent
SingleFetched ==
    /\ pc = "single"
    /\ fPhase = "done"
    /\ responses' = Append(responses,
          IF fOutcome.ok
          THEN LET record == DetailRecord(urlParam)
               IN SingleRecordResponse(record, ValidateScrapedData(record))
          ELSE ErrorResponse("Failed to scrape URL", fOutcome.message))
    /\ pc' = "finished"
    /\ NoFetch
    /\ UNCHANGED <<urlParam, limitParam, limit, page, urlsSet, urls, i, results, errors>>
    /\ UNCHANGED <<saveVars, site, gap, indexFailures, extractVars>>

\* discovery loop body after await fetchDocument(indexUrl) returned a document
IndexPageFetched ==
    /\ pc = "discover"
    /\ fPhase = "done"
    /\ fOutcome.ok
    /\ LET set == AddAnchors(urlsSet, fOutcome.anchors)
       IN IF FoundOnPage(fOutcome.anchors) = 0
          THEN \* break
               /\ UNCHANGED page
               /\ urlsSet' = set
               /\ EnterBatch(DiscoveredUrls(set, limit))
          ELSE IF page < MAX_PAGES
          THEN \* polite delay between page fetches
               /\ pc' = "discover_sleep"
               /\ urlsSet' = set
               /\ NoFetch
               /\ UNCHANGED <<page, urls, i, results, errors, responses>>
          ELSE DiscoverLoopTop(page + 1, set)
    /\ UNCHANGED <<urlParam, limitParam, limit>>
    /\ UNCHANGED <<saveVars, site, gap, indexFailures, extractVars>>

IndexPageFailedAborts ==
    /\ pc = "discover"
    /\ fPhase = "done"
    /\ ~fOutcome.ok
    /\ indexFailures' = indexFailures + 1
    /\ pc' = "finished"
    /\ responses' = Append(responses,
                           ErrorResponse("Failed to discover inefficiency URLs",
                                         fOutcome.message))
    /\ NoFetch
    /\ UNCHANGED <<urlParam, limitParam, limit, page, urlsSet, urls, i, results, errors>>
    /\ UNCHANGED <<saveVars, site, gap, extractVars>>
\* discovery loop body when await fetchDocument(indexUrl) threw: the catch logs, page++
IndexPageFailed ==
    /\ pc = "discover"
    /\ fPhase = "done"
    /\ ~fOutcome.ok
    /\ indexFailures' = indexFailures + 1
    /\ DiscoverLoopTop(page + 1, urlsSet)
    /\ UNCHANGED <<urlParam, limitParam, limit>>
    /\ UNCHANGED <<saveVars, site, gap, extractVars>>

\* the polite delay (REQUEST_DELAY_MS) of the discovery loop is over: page++, next fetch
DiscoverSleepDone ==
    /\ pc = "discover_sleep"
    /\ gap' = "delay"
    /\ DiscoverLoopTop(page + 1, urlsSet)
    /\ UNCHANGED <<urlParam, limitParam, limit>>
    /\ UNCHANGED <<saveVars, site, indexFailures, extractVars>>

\* batch loop body after await parseInefficiencyDetail(url) returned or threw: a
\* record is validated, a warning is logged if it is invalid, and it is pushed
DetailFetched ==
    /\ pc = "batch"
    /\ fPhase = "done"
    /\ LET url == urls[i + 1]
           record == DetailRecord(url)
           rs == IF fOutcome.ok
                 THEN ResultsPush(results, record, ValidateScrapedData(record))
                 ELSE results
           es == IF fOutcome.ok THEN errors
                 ELSE ErrorsAfter(errors, url, fOutcome.message, i)
           idx == NextIndex(i, fOutcome.ok)
       IN /\ results' = rs
          /\ errors' = es
          /\ i' = idx
          /\ BatchLoopTop(idx, urls, rs, es)
    /\ UNCHANGED <<urlParam, limitParam, limit, page, urlsSet, urls>>
    /\ UNCHANGED <<saveVars, site, gap, indexFailures, extractVars>>

\* sleep(REQUEST_DELAY_MS) of the batch loop is over: the next detail page is fetched
BatchSleepDone ==
    /\ pc = "batch_sleep"
    /\ gap' = "delay"
    /\ pc' = "batch"
    /\ StartFetch(urls[i + 1])
    /\ UNCHANGED <<urlParam, limitParam, limit, page, urlsSet, urls, i, results, errors,
                   responses>>
    /\ UNCHANGED <<saveVars, site, indexFailures, extractVars>>

(***************************************************************************)
(* Inputs, initial states and specifications                               *)
(***************************************************************************)
\* anchors of index pages with detail links: relative and absolute hrefs, hrefs
\* that are no detail link, a link repeated on its page, a link of another origin
IndexPages ==
    { <<RelHref("b"), AboutHref, AbsHref("a")>>,
      <<RelHref("c"), RelHref("c")>>,
      <<MirrorHref("a"), RelHref("a")>> }

\* the links of the first page of IndexPages in another order and another form
PermutedPages == { <<AbsHref("a"), RelHref("b")>> }

SitesOf(pages, sizes) ==
    {[n |-> 0, body |-> NoLinksPage, last |-> NoLinksPage]}
    \cup {[n |-> 1, body |-> l, last |-> l] : l \in pages}
    \cup {[n |-> k, body |-> b, last |-> l] : k \in sizes \ {0, 1}, b \in pages, l \in pages}

Sites == SitesOf(IndexPages, 0..MaxIndexPages)

\* the sites of SpecDiscovery: small sites, and sites with as many pages of links
\* as the safety cap and with one more
DiscoverySiteSizes == (0..MaxIndexPages) \cup {MAX_PAGES, MAX_PAGES + 1}
DiscoverySites == SitesOf(IndexPages \cup PermutedPages, DiscoverySiteSizes)

\* the limit parameters of SpecDiscovery
DiscoveryLimitParams == {Null, <<"2">>, <<"a">>}

\* the url parameter of the request: absent, a detail page, the site with a
\* path of one slash and with an empty path
UrlParams == {Null, AbsHref("a"), <<BASE_URL, "/">>, <<BASE_URL>>}

\* the limit parameter of the request: absent, positive integers, zero, a negative
\* integer, not a number
LimitParams == {Null, <<"1">>, <<"2">>, <<"1", "0">>, <<"0">>, <<"-", "1">>, <<"a">>}

\* nothing was sent on res and the process has not exited
NoAnswer == [kind |-> "none", status |-> 0, filesUploaded |-> 0]

InitRequest ==
    /\ pc = "idle"
    /\ urlParam = Null
    /\ limitParam = Null
    /\ limit = Num(DEFAULT_LIMIT)
    /\ page = 0
    /\ urlsSet = <<>>
    /\ urls = <<>>
    /\ i = 0
    /\ results = <<>>
    /\ errors = <<>>
    /\ responses = <<>>
    /\ fPhase = "idle"
    /\ fUrl = <<>>
    /\ fTimer = FALSE
    /\ fClock = "early"
    /\ fOutcome = NoOutcome
    /\ inFlight = {}
    /\ fetchLog = <<>>
    /\ gap = "nodelay"
    /\ indexFailures = 0
    /\ sPc = "idle"
    /\ sData = <<>>
    /\ sIdx = 0
    /\ sPuts = <<>>
    /\ sFiles = <<>>
    /\ sFailed = 0
    /\ sAnswer = NoAnswer

InitNoExtract ==
    /\ doc = <<>>
    /\ label = <<>>
    /\ out = <<>>
    /\ dom = <<>>
    /\ sUrl = <<>>
    /\ vData = <<>>

Init ==
    /\ site \in Sites
    /\ InitRequest
    /\ InitNoExtract

FetchStep ==
    \/ ResponseOk
    \/ ResponseNotOk
    \/ FetchRejects
    \/ TimerFires
    \/ BodyArrives
    \/ BodyFails
    \/ TimePasses

Next ==
    \/ \E up \in UrlParams, lp \in LimitParams : HandleRequest(up, lp)
    \/ SingleFetched
    \/ IndexPageFetched
    \/ IndexPageFailed
    \/ DiscoverSleepDone
    \/ DetailFetched
    \/ BatchSleepDone
    \/ FetchStep

Spec == Init /\ [][Next]_vars

\* URL discovery alone: batch requests, followed until extractInefficiencyUrls has
\* returned and the first detail page is being fetched
InitDiscovery ==
    /\ site \in DiscoverySites
    /\ InitRequest
    /\ InitNoExtract

NextDiscovery ==
    \/ \E lp \in DiscoveryLimitParams : HandleRequest(Null, lp)
    \/ IndexPageFetched
    \/ IndexPageFailed
    \/ DiscoverSleepDone
    \/ FetchStep

SpecDiscovery == InitDiscovery /\ [][NextDiscovery]_vars

\* the fetch timer bounds the wait for the response headers: a fetch that awaits
\* them gets them, is rejected, or is aborted by the timer
HeadersPhaseEnds == ResponseOk \/ ResponseNotOk \/ FetchRejects \/ TimerFires

\* URL discovery with the steps the program itself schedules taken in the end:
\* the continuations after an await, the delay timer and the fetch timer.  No
\* timer covers resp.text(), so nothing says that a body arrives or fails.
SpecDiscoveryFair ==
    /\ SpecDiscovery
    /\ WF_vars(IndexPageFetched)
    /\ WF_vars(IndexPageFailed)
    /\ WF_vars(DiscoverSleepDone)
    /\ WF_vars(HeadersPhaseEnds)

\* the same when every body read settles as well
SpecDiscoveryBodiesSettle == SpecDiscoveryFair /\ WF_vars(BodyArrives \/ BodyFails)

\* the whole handler with the same scheduling: the continuation of every await
\* runs, the delay before the next detail page ends, and the headers phase of a
\* fetch ends; the body read is left without bound
SpecFair ==
    /\ Spec
    /\ WF_vars(SingleFetched)
    /\ WF_vars(IndexPageFetched)
    /\ WF_vars(IndexPageFailed)
    /\ WF_vars(DiscoverSleepDone)
    /\ WF_vars(DetailFetched)
    /\ WF_vars(BatchSleepDone)
    /\ WF_vars(HeadersPhaseEnds)

\* the same when every body read settles as well
SpecBodiesSettle == SpecFair /\ WF_vars(BodyArrives \/ BodyFails)

\* the handler up to the first detail fetch, on a site with more detail links
\* than the default limit and with every limit parameter
SixLinksPage ==
    <<RelHref("a"), RelHref("b"), RelHref("c"),
      MirrorHref("a"), MirrorHref("b"), MirrorHref("c")>>

InitLimit ==
    /\ site \in SitesOf({SixLinksPage}, {0, 1})
    /\ InitRequest
    /\ InitNoExtract

NextLimit ==
    \/ \E lp \in LimitParams : HandleRequest(Null, lp)
    \/ IndexPageFetched
    \/ IndexPageFailed
    \/ DiscoverSleepDone
    \/ FetchStep

SpecLimit == InitLimit /\ [][NextLimit]_vars

(***************************************************************************)
(* The extractors applied to bounded documents                             *)
(***************************************************************************)
\* nodeValues: empty, whitespace only, a field label, a padded value, a value
\* with a run of whitespace inside, two padded section titles
NodeValues ==
    { <<>>,
      <<" ", "\n">>,
      <<"Cloud", " ", "Provider">>,
      <<" ", "AWS", "\n">>,
      <<"idle", " ", "\n", "nodes">>,
      <<"\n", "Explanation">>,
      <<"Detection", " ">> }

Docs == UNION {[1..n -> NodeValues] : n \in 0..MaxNodes}

\* the labelText / headingText the extractors are called with
LabelTexts == { <<"Cloud", " ", "Provider">>, <<"Explanation">> }

NotRun == [op |-> "none", value |-> Null]

InitExtract ==
    /\ site \in SitesOf({}, {0})
    /\ InitRequest
    /\ doc \in Docs
    /\ label \in LabelTexts
    /\ out = NotRun
    /\ dom = <<>>
    /\ sUrl = <<>>
    /\ vData = <<>>

\* parseInefficiencyDetail calls findFieldValue(document, label)
RunFindFieldValue ==
    /\ out.op = "none"
    /\ out' = [op |-> "findFieldValue", value |-> FindFieldValue(doc, label)]
    /\ UNCHANGED <<doc, label, dom, sUrl, vData>>
    /\ UNCHANGED <<saveVars, site, gap, indexFailures, handlerVars, fetchVars>>

\* parseInefficiencyDetail calls extractSectionParagraph(document, label)
RunExtractSectionParagraph ==
    /\ out.op = "none"
    /\ out' = [op |-> "extractSectionParagraph",
               value |-> ExtractSectionParagraph(doc, label)]
    /\ UNCHANGED <<doc, label, dom, sUrl, vData>>
    /\ UNCHANGED <<saveVars, site, gap, indexFailures, handlerVars, fetchVars>>

NextExtract ==
    \/ RunFindFieldValue
    \/ RunExtractSectionParagraph

SpecExtract == InitExtract /\ [][NextExtract]_vars

(***************************************************************************)
(* The extractors applied to bounded element trees                         *)
(***************************************************************************)
\* the blocks the documents of SpecDom are made of: headings alone, a heading
\* and its list as siblings, a section in an element of its own, a list alone,
\* links, a section with text directly in its element, a paragraph
Blocks ==
    { HeadingBlock(<<"Detection">>),
      HeadingBlock(<<" ">> \o RELEVANT_DOCUMENTATION \o <<"\n">>),
      HeadingBlock(<<"Detection", " ">>) \o ListBlock(DetectionItems),
      HeadingBlock(<<"\n", "Remediation">>) \o NestedListBlock,
      Wrapped(HeadingBlock(<<"Remediation">>) \o ListBlock(<< <<"resize">> >>)),
      ListBlock(<< <<"loose">> >>),
      LinksBlock,
      StrayTextBlock,
      ParagraphBlock(<<"idle", " ", "nodes">>) }

RECURSIVE ConcatBlocks(_)
ConcatBlocks(bs) == IF bs = <<>> THEN <<>> ELSE bs[1] \o ConcatBlocks(Tail(bs))

DomDocs == UNION {{ConcatBlocks(bs) : bs \in [1..n -> Blocks]} : n \in 0..MaxBlocks}

\* the headingText / labelText the extractors are called with on the trees
DomLabels == { <<"Detection">>, <<"Remediation">> }

InitDom ==
    /\ site \in SitesOf({}, {0})
    /\ InitRequest
    /\ dom \in DomDocs
    /\ doc = TextValuesOf(dom)
    /\ label \in DomLabels
    /\ out = NotRun
    /\ sUrl = <<>>
    /\ vData = <<>>

\* parseInefficiencyDetail calls extractSectionList(document, label)
RunExtractSectionList ==
    /\ out.op = "none"
    /\ out' = [op |-> "extractSectionList", value |-> ExtractSectionList(dom, label)]
    /\ UNCHANGED <<doc, label, dom, sUrl, vData>>
    /\ UNCHANGED <<saveVars, site, gap, indexFailures, handlerVars, fetchVars>>

\* parseInefficiencyDetail calls extractDocumentationLinks(document)
RunExtractDocumentationLinks ==
    /\ out.op = "none"
    /\ out' = [op |-> "extractDocumentationLinks", value |-> ExtractDocumentationLinks(dom)]
    /\ UNCHANGED <<doc, label, dom, sUrl, vData>>
    /\ UNCHANGED <<saveVars, site, gap, indexFailures, handlerVars, fetchVars>>

NextDom ==
    \/ RunFindFieldValue
    \/ RunExtractSectionParagraph
    \/ RunExtractSectionList
    \/ RunExtractDocumentationLinks

SpecDom == InitDom /\ [][NextDom]_vars

(***************************************************************************)
(* The title of parseInefficiencyDetail applied to bounded documents       *)
(***************************************************************************)
\* the blocks the documents of SpecTitle are made of: an h1 whose text needs
\* trimming, an h1 without text, an h1 of whitespace, an h1 whose text lies partly
\* in a child element, an h2, a paragraph, whitespace directly in the body
TitleBlocks ==
    { <<Element("h1", 1), TextNode(<<" ", "Idle", " ", "VM", "\n">>, 2)>>,
      <<Element("h1", 1)>>,
      <<Element("h1", 1), TextNode(<<" ">>, 2)>>,
      <<Element("h1", 1), Element("span", 2), TextNode(<<"Idle">>, 3),
        TextNode(<<" ", "disk">>, 2)>>,
      HeadingBlock(<<"Detection">>),
      ParagraphBlock(<<"idle", " ", "nodes">>),
      <<TextNode(<<"\n">>, 1)>> }

TitleDocs == UNION {{ConcatBlocks(bs) : bs \in [1..n -> TitleBlocks]} : n \in 0..MaxBlocks}

InitTitle ==
    /\ site \in SitesOf({}, {0})
    /\ InitRequest
    /\ dom \in TitleDocs
    /\ doc = TextValuesOf(dom)
    /\ label = <<>>
    /\ out = NotRun
    /\ sUrl = <<>>
    /\ vData = <<>>

\* parseInefficiencyDetail derives the title of the document
RunTitle ==
    /\ out.op = "none"
    /\ out' = [op |-> "title", value |-> TitleOf(dom)]
    /\ UNCHANGED <<doc, label, dom, sUrl, vData>>
    /\ UNCHANGED <<saveVars, site, gap, indexFailures, handlerVars, fetchVars>>

\* parseInefficiencyDetail derives the author from the title
RunAuthor ==
    /\ out.op = "title"
    /\ out' = [op |-> "author", value |-> AuthorOf(dom, out.value)]
    /\ UNCHANGED <<doc, label, dom, sUrl, vData>>
    /\ UNCHANGED <<saveVars, site, gap, indexFailures, handlerVars, fetchVars>>

NextTitle ==
    \/ RunTitle
    \/ RunAuthor

SpecTitle == InitTitle /\ [][NextTitle]_vars

(***************************************************************************)
(* save_to_s3 (api/save_to_s3.js) and the batch script                     *)
(* (scripts/run_scrape_batch.js): a summary file, then one file per item   *)
(***************************************************************************)
MaxItems == 2

\* timestampSlug(): read once, the same in every key of a request or a run
TimestampSlug == "2026-11-01T00-00-00-000Z"

\* normalizePrefix(process.env.S3_PREFIX || "Recos/")
PREFIX == "Recos/"

\* String(v) of a string or a number
StringOf(v) == IF v = NonString THEN <<"42">> ELSE v

\* item.id && String(item.id).trim() ? item.id.trim() : fallback, for an item
\* that may be null: reading .id of null throws a TypeError, and so does
\* calling .trim() on an id that is not a string
IdPart(item, fallback) ==
    IF ~item.isObject THEN [threw |-> TRUE, value |-> <<>>]
    ELSE IF Truthy(item.id) /\ Trim(StringOf(item.id)) # <<>>
    THEN IF IsString(item.id) THEN [threw |-> FALSE, value |-> Trim(item.id)]
         ELSE [threw |-> TRUE, value |-> <<>>]
    ELSE [threw |-> FALSE, value |-> fallback]

\* `item-${i + 1}` of save_to_s3, `item-${index}` of the script
ItemFallback(n) == <<"item-", ToString(n + 1)>>

\* the keys of save_to_s3
SummaryKey == <<PREFIX, "scraper_summary_", TimestampSlug, ".json">>
ItemKey(idPart) == <<PREFIX, "scraped_">> \o idPart \o <<"_", TimestampSlug, ".json">>

\* the keys of the batch script: the prefix "pointfive_" is written as the two
\* pieces that the summary key and an item key begin with
ScriptSummaryKey == <<PREFIX, "pointfive_", "hub_summary", "_", TimestampSlug, ".json">>
ScriptItemKey(idPart) == <<PREFIX, "pointfive_">> \o idPart \o <<"_", TimestampSlug, ".json">>

\* s3.putObject(params).promise() is called, and settles
PutStarted(puts, key) == Append(puts, [key |-> key, state |-> "pending"])
PutSettled(puts, ok) == [puts EXCEPT ![Len(puts)].state = IF ok THEN "ok" ELSE "failed"]

\* res.status(status).json(...), with filesUploaded in the success answer
Response(status, files) ==
    [kind |-> "response", status |-> status, filesUploaded |-> Len(files)]

\* the process ends: process.exit(code), or main() resolves and node exits with 0
Exit(code) == [kind |-> "exit", status |-> code, filesUploaded |-> 0]

\* the handler or the process ends with the answer
SaveEnds(answer, puts, files, failed) ==
    /\ sPc' = "done"
    /\ sAnswer' = answer
    /\ sPuts' = puts
    /\ sFiles' = files
    /\ sFailed' = failed

\* a putObject call is awaited at position pos
SaveAwaits(pos, puts, files, failed) ==
    /\ sPc' = pos
    /\ sAnswer' = sAnswer
    /\ sPuts' = puts
    /\ sFiles' = files
    /\ sFailed' = failed

\* the top of the for loop of save_to_s3 with i = n: the key is built outside the
\* inner try, the upload inside it
SaveLoopTop(data, n, puts, files) ==
    /\ sIdx' = n
    /\ IF n < Len(data)
       THEN LET idPart == IdPart(data[n + 1], ItemFallback(n))
            IN IF idPart.threw
               THEN SaveEnds(Response(500, <<>>), puts, files, 0)
               ELSE SaveAwaits("save_item", PutStarted(puts, ItemKey(idPart.value)), files, 0)
       ELSE SaveEnds(Response(200, files), puts, files, 0)

\* save_to_s3 from its first line to its first await
SaveRequest(req) ==
    /\ sPc = "idle"
    /\ IF req.method # "POST"
       THEN sData' = sData /\ sIdx' = 0 /\ SaveEnds(Response(405, <<>>), <<>>, <<>>, 0)
       ELSE IF ~req.bucket \/ ~req.credentials
       THEN sData' = sData /\ sIdx' = 0 /\ SaveEnds(Response(500, <<>>), <<>>, <<>>, 0)
       ELSE IF req.data.kind = "missing"
       THEN sData' = sData /\ sIdx' = 0 /\ SaveEnds(Response(400, <<>>), <<>>, <<>>, 0)
       ELSE IF req.data.kind = "array"
       THEN /\ sData' = req.data.items
            /\ sIdx' = 0
            /\ SaveAwaits("save_summary", PutStarted(<<>>, SummaryKey), <<>>, 0)
       ELSE /\ sData' = req.data.items
            /\ sIdx' = 0
            /\ LET idPart == IdPart(req.data.items[1], <<"item-", TimestampSlug>>)
               IN IF idPart.threw
                  THEN SaveEnds(Response(500, <<>>), <<>>, <<>>, 0)
                  ELSE SaveAwaits("save_single",
                                  PutStarted(<<>>, ItemKey(idPart.value)), <<>>, 0)
    /\ UNCHANGED <<site, gap, indexFailures, handlerVars, fetchVars, extractVars>>

\* the upload of the summary settles: uploadedFiles.push and the loop, or the
\* outer catch
SaveSummarySettles(ok) ==
    /\ sPc = "save_summary"
    /\ IF ok
       THEN SaveLoopTop(sData, 0, PutSettled(sPuts, TRUE), Append(sFiles, SummaryKey))
       ELSE sIdx' = sIdx /\ SaveEnds(Response(500, <<>>), PutSettled(sPuts, FALSE), sFiles, 0)
    /\ UNCHANGED sData
    /\ UNCHANGED <<site, gap, indexFailures, handlerVars, fetchVars, extractVars>>

\* the upload of item sIdx settles: uploadedFiles.push, or the inner catch; i++
SaveItemSettles(ok) ==
    /\ sPc = "save_item"
    /\ SaveLoopTop(sData, sIdx + 1, PutSettled(sPuts, ok),
                   IF ok THEN Append(sFiles, sPuts[Len(sPuts)].key) ELSE sFiles)
    /\ UNCHANGED sData
    /\ UNCHANGED <<site, gap, indexFailures, handlerVars, fetchVars, extractVars>>

\* the upload of the single item settles
SaveSingleSettles(ok) ==
    /\ sPc = "save_single"
    /\ IF ok
       THEN SaveEnds(Response(200, Append(sFiles, sPuts[1].key)), PutSettled(sPuts, TRUE),
                     Append(sFiles, sPuts[1].key), 0)
       ELSE SaveEnds(Response(500, <<>>), PutSettled(sPuts, FALSE), sFiles, 0)
    /\ UNCHANGED <<sData, sIdx>>
    /\ UNCHANGED <<site, gap, indexFailures, handlerVars, fetchVars, extractVars>>

\* main() of the batch script up to await fetchScrapedData(limit)
ScriptStarts ==
    /\ sPc = "idle"
    /\ sPc' = "script_fetch"
    /\ UNCHANGED <<sData, sIdx, sPuts, sFiles, sFailed, sAnswer>>
    /\ UNCHANGED <<site, gap, indexFailures, handlerVars, fetchVars, extractVars>>

\* fetchScrapedData settles: it throws (no response, a status that is not ok, no
\* items array), main rethrows and main().catch exits with 1; or it returns data
\* and the summary is uploaded
ScriptFetchSettles(fetched) ==
    /\ sPc = "script_fetch"
    /\ sIdx' = 0
    /\ IF fetched.kind # "array"
       THEN sData' = sData /\ SaveEnds(Exit(1), <<>>, <<>>, 0)
       ELSE /\ sData' = fetched.items
            /\ SaveAwaits("script_summary", PutStarted(<<>>, ScriptSummaryKey), <<>>, 0)
    /\ UNCHANGED <<site, gap, indexFailures, handlerVars, fetchVars, extractVars>>

\* the top of the for loop of main with the item at n (index = n + 1), and its end
ScriptLoopTop(data, n, puts, files, failed) ==
    /\ sIdx' = n
    /\ IF n < Len(data)
       THEN LET idPart == IdPart(data[n + 1], ItemFallback(n))
            IN IF idPart.threw
               THEN SaveEnds(Exit(1), puts, files, failed)
               ELSE SaveAwaits("script_item",
                               PutStarted(puts, ScriptItemKey(idPart.value)), files, failed)
       ELSE SaveEnds(Exit(IF failed > 0 THEN 1 ELSE 0), puts, files, failed)

\* the upload of the summary settles
ScriptSummarySettles(ok) ==
    /\ sPc = "script_summary"
    /\ IF ok
       THEN ScriptLoopTop(sData, 0, PutSettled(sPuts, TRUE), sFiles, 0)
       ELSE sIdx' = sIdx /\ SaveEnds(Exit(1), PutSettled(sPuts, FALSE), sFiles, 0)
    /\ UNCHANGED sData
    /\ UNCHANGED <<site, gap, indexFailures, handlerVars, fetchVars, extractVars>>

\* the upload of an item settles: uploadedCount++ or failedCount++
ScriptItemSettles(ok) ==
    /\ sPc = "script_item"
    /\ ScriptLoopTop(sData, sIdx + 1, PutSettled(sPuts, ok),
                     IF ok THEN Append(sFiles, sPuts[Len(sPuts)].key) ELSE sFiles,
                     IF ok THEN sFailed ELSE sFailed + 1)
    /\ UNCHANGED sData
    /\ UNCHANGED <<site, gap, indexFailures, handlerVars, fetchVars, extractVars>>

\* items: ids that are plain, that need trimming, empty, of whitespace, absent,
\* a number, the fallback name of the second item, the name of the summary of
\* the script; and null in place of an item
SaveItems ==
    {[isObject |-> TRUE, id |-> v] :
        v \in { <<"a">>, <<" ", "a", "\n">>, <<>>, Null, NonString,
                <<"item-", "2">>, <<"hub_summary">> }}
    \cup {[isObject |-> FALSE, id |-> Null]}

SaveArrays == UNION {[1..n -> SaveItems] : n \in 0..MaxItems}

\* req.body.data: absent, one object, an array
SaveData ==
    {[kind |-> "missing", items |-> <<>>]}
    \cup {[kind |-> "object", items |-> <<item>>] : item \in SaveItems \ {[isObject |-> FALSE, id |-> Null]}}
    \cup {[kind |-> "array", items |-> items] : items \in SaveArrays}

\* requests: POST with the environment set, and one each of another method, a
\* missing bucket name, missing credentials
SaveRequests ==
    {[method |-> "POST", bucket |-> TRUE, credentials |-> TRUE, data |-> d] : d \in SaveData}
    \cup {[method |-> "GET", bucket |-> TRUE, credentials |-> TRUE,
           data |-> [kind |-> "missing", items |-> <<>>]],
          [method |-> "POST", bucket |-> FALSE, credentials |-> TRUE,
           data |-> [kind |-> "array", items |-> <<>>]],
          [method |-> "POST", bucket |-> TRUE, credentials |-> FALSE,
           data |-> [kind |-> "array", items |-> <<>>]]}

\* what fetchScrapedData ends with: it throws, or it returns data with items
ScriptFetches ==
    {[kind |-> "failed", items |-> <<>>]}
    \cup {[kind |-> "array", items |-> items] : items \in SaveArrays}

InitSave ==
    /\ site \in SitesOf({}, {0})
    /\ InitRequest
    /\ InitNoExtract

NextSave ==
    \/ \E req \in SaveRequests : SaveRequest(req)
    \/ \E ok \in BOOLEAN : SaveSummarySettles(ok)
    \/ \E ok \in BOOLEAN : SaveItemSettles(ok)
    \/ \E ok \in BOOLEAN : SaveSingleSettles(ok)
    \/ ScriptStarts
    \/ \E fetched \in ScriptFetches : ScriptFetchSettles(fetched)
    \/ \E ok \in BOOLEAN : ScriptSummarySettles(ok)
    \/ \E ok \in BOOLEAN : ScriptItemSettles(ok)

SpecSave == InitSave /\ [][NextSave]_vars

(***************************************************************************)
(* slugFromUrl and validateScrapedData applied to bounded inputs           *)
(***************************************************************************)
\* arguments of slugFromUrl: detail pages with and without trailing slashes, with
\* a query string, with a fragment, of another origin; the index; URLs whose
\* path is empty or only slashes; strings that are no URL; the empty string; null
SlugUrls ==
    { AbsHref("a"),
      <<BASE_URL, INEFF, "idle-ec2", "/">>,
      <<BASE_URL, INEFF, "a", "//">>,
      <<BASE_URL, INEFF, "a", "?ref=hub">>,
      <<BASE_URL, INEFF, "a", "/", "#top">>,
      MirrorHref("b"),
      <<BASE_URL, INEFF>>,
      IndexUrl(2),
      <<BASE_URL>>,
      <<BASE_URL, "/">>,
      <<BASE_URL, "//">>,
      <<MIRROR_URL, "?ref=hub">>,
      RelHref("a"),
      <<HTTP_GUIDE>>,
      <<"a">>,
      <<>>,
      Null }

\* the record of a full page, whose fields the arguments of the validator vary
ValidRecord == AssembleRecord(AbsHref("a"), PlainPageFields, 0)

\* values of id and title: a string, the empty string, null, a number
IdValues == { <<"a">>, <<>>, Null, NonString }
TitleValues == { <<"Hub">>, <<>>, Null, NonString }

\* values of source.url: absolute, relative, relative with the letters http
\* first, empty, null
SourceUrlValues == { AbsHref("a"), RelHref("a"), <<HTTP_GUIDE>>, <<>>, Null }

\* values of documentation_links: no link, absolute links, a relative link after
\* an absolute one, a relative link with the letters http first, a link without
\* url, not an array
LinksValues ==
    { JsArray(<<>>),
      JsArray(<<[title |-> <<"Guide">>, url |-> <<BASE_URL, "/docs">>],
                [title |-> Null, url |-> <<MIRROR_URL, "/docs">>]>>),
      JsArray(<<[title |-> <<"Guide">>, url |-> <<BASE_URL, "/docs">>],
                [title |-> <<"Guide">>, url |-> <<"/docs">>]>>),
      JsArray(<<[title |-> <<"Http">>, url |-> <<HTTP_GUIDE>>]>>),
      JsArray(<<[title |-> <<"Guide">>, url |-> Null]>>),
      NotAnArray }

\* values of scraped_at: ISO strings, a string that is no date, empty, null
ScrapedAtValues == { ToISOString(0), ToISOString(12), <<"yesterday">>, <<>>, Null }

ValidatorInputs ==
    { [ValidRecord EXCEPT !.id = id, !.title = title, !.source.url = su,
                          !.documentation_links = links, !.scraped_at = at] :
        id \in IdValues, title \in TitleValues, su \in SourceUrlValues,
        links \in LinksValues, at \in ScrapedAtValues }

InitRecord ==
    /\ site \in SitesOf({}, {0})
    /\ InitRequest
    /\ doc = <<>>
    /\ label = <<>>
    /\ dom = <<>>
    /\ out = NotRun
    /\ sUrl \in SlugUrls
    /\ vData \in ValidatorInputs

\* parseInefficiencyDetail calls slugFromUrl(sUrl)
RunSlugFromUrl ==
    /\ out.op = "none"
    /\ out' = [op |-> "slugFromUrl", value |-> SlugFromUrl(sUrl)]
    /\ UNCHANGED <<doc, label, dom, sUrl, vData>>
    /\ UNCHANGED <<saveVars, site, gap, indexFailures, handlerVars, fetchVars>>

\* the handler calls validateScrapedData(vData)
RunValidateScrapedData ==
    /\ out.op = "none"
    /\ out' = [op |-> "validateScrapedData", value |-> ValidateScrapedData(vData)]
    /\ UNCHANGED <<doc, label, dom, sUrl, vData>>
    /\ UNCHANGED <<saveVars, site, gap, indexFailures, handlerVars, fetchVars>>

NextRecord ==
    \/ RunSlugFromUrl
    \/ RunValidateScrapedData

SpecRecord == InitRecord /\ [][NextRecord]_vars

(***************************************************************************)
(* Properties of the handler                                               *)
(***************************************************************************)
UrlGiven == urlParam # Null /\ urlParam # <<>>
BatchMode == pc # "idle" /\ ~UrlGiven
BatchFinished == BatchMode /\ pc = "finished"
InBatchLoop == BatchMode /\ pc \in {"batch", "batch_sleep", "finished"}

ResultUrls == [k \in 1..Len(results) |-> results[k].source.url]
ErrorUrls == [k \in 1..Len(errors) |-> errors[k].url]

\* the messages fetchDocument throws for url
FetchErrorMessages(url) ==
    {TimeoutMessage(url)}
    \cup {FailedMessage(url, c) :
            c \in {"HTTP 500 Internal Server Error", "fetch failed", "terminated"}}

\* s is t with some elements left out
RECURSIVE IsSubsequence(_, _)
IsSubsequence(s, t) ==
    IF s = <<>> THEN TRUE
    ELSE IF t = <<>> THEN FALSE
    ELSE IF s[1] = t[1] THEN IsSubsequence(Tail(s), Tail(t))
    ELSE IsSubsequence(s, Tail(t))

\* s lists some of urls, each once, in the order of urls
InUrlOrder(s) == IsSubsequence(s, urls)

\* the detail pages fetched so far, in order
RECURSIVE DetailFetches(_)
DetailFetches(log) ==
    IF log = <<>> THEN <<>>
    ELSE IF IsIndexUrl(log[1]) THEN DetailFetches(Tail(log))
    ELSE <<log[1]>> \o DetailFetches(Tail(log))

\* C1: in batch mode a failed detail fetch never aborts the batch: while the loop
\* runs every URL handled so far is in results or in errors, and on completion
\* the one response is the 200 summary, results and errors together cover urls,
\* each keeps the order of urls, and each error carries its url, its index and
\* the message of the failure.
C1_PartialFailureKeepsBatch ==
    /\ InBatchLoop => Len(results) + Len(errors) = i
    /\ BatchFinished =>
        /\ Len(responses) = 1
        /\ responses[1].status = 200
        /\ responses[1].items = results
        /\ responses[1].errors = errors
        /\ responses[1].failed = Len(errors)
        /\ Len(results) + Len(errors) = Len(urls)
        /\ Range(ResultUrls) \cup Range(ErrorUrls) = Range(urls)
        /\ InUrlOrder(ResultUrls)
        /\ InUrlOrder(ErrorUrls)
        /\ DetailFetches(fetchLog) = urls
        /\ \A k \in 1..Len(errors) :
            /\ errors[k].index \in 1..Len(urls)
            /\ urls[errors[k].index] = errors[k].url
            /\ errors[k].error \in FetchErrorMessages(errors[k].url)

\* C1 witness: 3 URLs, the 2nd fetch timed out: 2 results, 1 error for the 2nd URL
C1_Witness ==
    /\ BatchFinished
    /\ Len(urls) = 3
    /\ Len(results) = 2
    /\ Len(errors) = 1
    /\ errors[1].url = urls[2]
    /\ errors[1].error = TimeoutMessage(urls[2])

\* C2: at most one request to the source site is in flight at any moment, and
\* none while the handler sleeps or has answered.
C2_OneRequestInFlight ==
    /\ Cardinality(inFlight) <= 1
    /\ pc \in {"discover_sleep", "batch_sleep", "finished", "idle"} => inFlight = {}
    /\ Pending => inFlight = {fUrl}

\* C2 witness: a detail fetch in flight after an earlier fetch timed out
C2_Witness ==
    /\ pc = "batch"
    /\ Pending
    /\ i = 1
    /\ Len(errors) = 1
    /\ errors[1].error = TimeoutMessage(urls[1])
    /\ inFlight = {urls[2]}

\* C3: every detail fetch but the first starts after the polite delay that
\* followed the end of the previous detail fetch, whether that one failed or not;
\* the delay runs while no fetch is active.
C3_DelayBeforeDetailFetch ==
    /\ (pc = "batch" /\ Pending /\ i > 0) => gap = "delay"
    /\ pc = "batch_sleep" => (fPhase = "idle" /\ i > 0 /\ i < Len(urls))

\* C3 witness: the fetch of the 2nd URL is pending, the fetch of the 1st URL failed
C3_Witness ==
    /\ pc = "batch"
    /\ Pending
    /\ i = 1
    /\ Len(errors) = 1
    /\ errors[1].index = 1
    /\ gap = "delay"

\* C4: a fetch never stays pending after the timeout has elapsed, neither while
\* it waits for the response nor while it reads the response body.
C4_FetchBoundedByTimeout == Pending => fClock # "late"

\* the part of C4 the code keeps: while the timer is armed (waiting for the
\* response) the fetch does not outlive the timeout
C4_BoundedWhileWaiting == fPhase = "headers" => (fTimer /\ fClock # "late")

\* number of fetchDocument calls for url
FetchCount(url) == Cardinality({k \in 1..Len(fetchLog) : fetchLog[k] = url})

\* C5: within one batch request each detail URL is fetched at most once, the
\* fetches follow urls in order, and on completion each was fetched exactly once.
C5_OneAttemptPerUrl ==
    BatchMode =>
        /\ \A k \in 1..Len(urls) : FetchCount(urls[k]) <= 1
        /\ \E n \in 0..Len(urls) : DetailFetches(fetchLog) = SubSeq(urls, 1, n)
        /\ pc = "finished" => \A k \in 1..Len(urls) : FetchCount(urls[k]) = 1

\* C5 witness: a finished batch in which one fetch failed and a later one succeeded
C5_Witness ==
    /\ BatchFinished
    /\ Len(errors) = 1
    /\ errors[1].index = 1
    /\ Len(results) >= 1

\* the limit parameter is a positive integer in decimal notation
PositiveIntParam(lp) ==
    /\ lp # Null
    /\ lp # <<>>
    /\ \A k \in 1..Len(lp) : lp[k] \in Digits
    /\ \E k \in 1..Len(lp) : lp[k] # "0"

Min(a, b) == IF a < b THEN a ELSE b

\* s is strictly increasing in the order of strings
StrictlySorted(s) == \A k \in 1..(Len(s) - 1) : StrLess(s[k], s[k + 1])

\* s is the n first of the discovered links in sorted order
FirstSorted(s, discovered, n) ==
    /\ Len(s) = n
    /\ StrictlySorted(s)
    /\ Range(s) \subseteq discovered
    /\ \A u \in discovered \ Range(s) : \A k \in 1..Len(s) : StrLess(s[k], u)

\* C7: with a positive integer limit the detail URLs processed are the first
\* min(limit, number discovered) URLs of the sorted discovery sequence, in order.
C7_LimitTakesFirstSorted ==
    (InBatchLoop /\ PositiveIntParam(limitParam)) =>
        LET discovered == Range(urlsSet)
            n == Min(DigitsValue(limitParam, 0), Cardinality(discovered))
        IN /\ FirstSorted(urls, discovered, n)
           /\ DetailFetches(fetchLog) = SubSeq(urls, 1, Len(DetailFetches(fetchLog)))
           /\ pc = "finished" => DetailFetches(fetchLog) = urls

\* C7 witness: limit=2 with 3 links discovered out of order: 2 URLs were processed
C7_Witness ==
    /\ BatchFinished
    /\ limitParam = <<"2">>
    /\ Len(urlsSet) = 3
    /\ ~StrictlySorted(urlsSet)
    /\ Len(urls) = 2
    /\ Len(results) + Len(errors) = 2

\* C7 witness: a limit above the number discovered: all of them were processed
C7_WitnessAll ==
    /\ BatchFinished
    /\ limitParam = <<"1", "0">>
    /\ Len(urlsSet) = 3
    /\ Len(urls) = 3

SingleResponse(outcome) ==
    IF outcome.ok THEN RecordResponse(DetailRecord(urlParam))
    ELSE ErrorResponse("Failed to scrape URL", outcome.message)

\* what holds in every state of a request that carries a url parameter
SingleUrlState ==
    UrlGiven =>
        /\ pc \in {"single", "finished"}
        /\ fetchLog = <<urlParam>>
        /\ urls = <<>>
        /\ pc = "single" => responses = <<>>
        /\ pc = "finished" =>
            /\ Len(responses) = 1
            /\ \/ /\ responses[1].status = 200
                  /\ responses[1].record = DetailRecord(urlParam)
               \/ /\ responses[1].status = 500
                  /\ responses[1].record = NoRecord
                  /\ responses[1].details \in FetchErrorMessages(urlParam)

\* C8: with a url parameter discovery is bypassed: no index page is fetched, the
\* given URL is the one page fetched, and the answer is the record when that
\* fetch returned and the error response with the failure message when it threw.
C8_SingleUrlBypassesDiscovery ==
    [][ /\ SingleUrlState'
        /\ (UrlGiven /\ pc = "single" /\ pc' = "finished") =>
              responses' = <<SingleResponse(fOutcome)>> ]_vars

\* C8 witness: the single fetch timed out and the 500 response carries the message
C8_Witness ==
    /\ UrlGiven
    /\ pc = "finished"
    /\ responses = <<ErrorResponse("Failed to scrape URL", TimeoutMessage(urlParam))>>
    /\ fetchLog = <<urlParam>>

\* the detail links of index pages 1..n of the site, resolved
SiteLinks(n) ==
    UNION {{FullUrl(h) : h \in {x \in Range(SitePage(p)) : IncludesInefficiencies(x)}} :
             p \in 1..n}

\* s is the sorted sequence of the links, cut to the limit the handler passes
SortedLinksUpToLimit(s, links) ==
    FirstSorted(s, links,
                IF ~limit.nan /\ limit.val > 0
                THEN Min(limit.val, Cardinality(links))
                ELSE Cardinality(links))

\* pages 1..site.n of the site carry detail links, page site.n + 1 carries none;
\* every index page asked for was returned
PagesReturned == InBatchLoop /\ indexFailures = 0

\* C6 as claimed: for every N, with pages 1..N returning links and page N+1 none,
\* discovery returns the sorted de-duplicated union of the links of pages 1..N
\* (cut to the limit the handler passes, in whatever order a page lists its links).
C6_DiscoveryReturnsAllPages ==
    PagesReturned => SortedLinksUpToLimit(urls, SiteLinks(site.n))

\* C6 amended: the same for every N up to the safety cap MAX_PAGES; beyond the
\* cap discovery returns the sorted de-duplicated union of pages 1..MAX_PAGES.
C6_DiscoveryReturnsPagesUpToCap ==
    PagesReturned => SortedLinksUpToLimit(urls, SiteLinks(Min(site.n, MAX_PAGES)))

\* C6 witness: two pages whose three links are met out of order, one of them twice
C6_Witness ==
    /\ PagesReturned
    /\ site.n = 2
    /\ limit.nan
    /\ Cardinality(SiteLinks(2)) = 3
    /\ ~StrictlySorted(urlsSet)
    /\ Len(urls) = 3
    /\ StrictlySorted(urls)

\* C6 witness: a site with exactly MAX_PAGES pages of links
C6_WitnessCap ==
    /\ PagesReturned
    /\ site.n = MAX_PAGES
    /\ site.body # site.last
    /\ Len(urls) = Cardinality(SiteLinks(MAX_PAGES))

(***************************************************************************)
(* Properties of the extractors                                            *)
(***************************************************************************)
\* the trimmed text of node k of the document
TextAt(k) == TextValue(doc[k])
NonEmptyNodes == {k \in 1..Len(doc) : TextAt(k) # <<>>}
LabelNodes == {k \in 1..Len(doc) : TextAt(k) = label}
FirstOf(S) == CHOOSE k \in S : \A j \in S : k <= j

\* the non-empty nodes after the first node equal to the label
AfterLabel == {k \in NonEmptyNodes : k > FirstOf(LabelNodes)}

\* C9: findFieldValue returns the first non-empty text after the first node equal
\* to the label, and null when the label never occurs or no non-empty text
\* follows its first occurrence; occurrences of the label after that first one
\* have no part in the result.
C9_FieldValueFollowsFirstLabel ==
    out.op = "findFieldValue" =>
        out.value = IF LabelNodes = {} THEN Null
                    ELSE IF AfterLabel = {} THEN Null
                    ELSE TextAt(FirstOf(AfterLabel))

\* C9 witness: the label occurs twice, each time followed by another value, and
\* the value after the first occurrence is returned
C9_Witness ==
    /\ out.op = "findFieldValue"
    /\ Cardinality(LabelNodes) = 2
    /\ Len(doc) = 4
    /\ TextAt(1) = label
    /\ TextAt(3) = label
    /\ TextAt(2) = <<"AWS">>
    /\ TextAt(4) = <<"idle", " ", "\n", "nodes">>
    /\ out.value = <<"AWS">>

\* C9 witness: the label is the last non-empty text of the document
C9_WitnessAbsent ==
    /\ out.op = "findFieldValue"
    /\ LabelNodes # {}
    /\ AfterLabel = {}
    /\ out.value = Null

\* the first node after the heading that is another section title, or Len(doc) + 1
SectionEnd ==
    LET stops == {k \in AfterLabel : TextAt(k) \in SECTION_TITLES /\ TextAt(k) # label}
    IN IF stops = {} THEN Len(doc) + 1 ELSE FirstOf(stops)

\* the non-empty nodes between the heading and the end of its section
SectionNodes == {k \in AfterLabel : k < SectionEnd}

IsWord(t) == t \notin Whitespace

\* the words of nodes from..Len(doc) that belong to the section, in order
RECURSIVE SectionWords(_)
SectionWords(from) ==
    IF from > Len(doc) THEN <<>>
    ELSE (IF from \in SectionNodes THEN SelectSeq(doc[from], IsWord) ELSE <<>>)
         \o SectionWords(from + 1)

\* the words with one space between neighbours
RECURSIVE SpaceSeparated(_)
SpaceSeparated(words) ==
    IF Len(words) <= 1 THEN words
    ELSE <<words[1], " ">> \o SpaceSeparated(Tail(words))

C10_WitnessAbsent ==
    /\ out.op = "extractSectionParagraph"
    /\ LabelNodes # {}
    /\ SectionEnd = FirstOf(LabelNodes) + 1
    /\ SectionEnd <= Len(doc)
    /\ out.value = Null

(***************************************************************************)
(* Properties of the element-tree extractors                               *)
(***************************************************************************)
\* the document has a text node whose trimmed value is text
HasText(text) == \E k \in 1..Len(doc) : TextValue(doc[k]) = text

\* the tree has an element with this tag
HasElement(tag) == \E k \in 1..Len(dom) : dom[k].tag = tag

\* C11: on a document that lacks the label or heading asked for, findFieldValue
\* and extractSectionParagraph return null and extractSectionList returns the
\* empty array; on a document without the text "Relevant Documentation",
\* extractDocumentationLinks returns the empty array
C11_MissingHeadingGivesAbsent ==
    /\ (out.op \in {"findFieldValue", "extractSectionParagraph"} /\ ~HasText(label))
          => out.value = Null
    /\ (out.op = "extractSectionList" /\ ~HasText(label)) => out.value = <<>>
    /\ (out.op = "extractDocumentationLinks" /\ ~HasText(RELEVANT_DOCUMENTATION))
          => out.value = <<>>

\* a document with anchors and no "Relevant Documentation": no link is collected
C11_Witness ==
    /\ out.op = "extractDocumentationLinks"
    /\ ~HasText(RELEVANT_DOCUMENTATION)
    /\ \E k \in 1..Len(dom) : dom[k].tag = "a" /\ dom[k].href = <<"/docs">>
    /\ out.value = <<>>

\* a document with a list and without the heading asked for: no item is returned
C11_WitnessList ==
    /\ out.op = "extractSectionList"
    /\ ~HasText(label)
    /\ HasElement("ul")
    /\ out.value = <<>>

\* a document with text and without the label asked for: the scalar is null
C11_WitnessScalar ==
    /\ out.op = "findFieldValue"
    /\ ~HasText(label)
    /\ doc # <<>>
    /\ out.value = Null

\* the heading asked for is in the document, k is its first text node
HeadingAt(k) ==
    /\ k \in 1..Len(dom)
    /\ dom[k].tag = "#text"
    /\ TextValue(dom[k].value) = label
    /\ \A j \in 1..(k - 1) : dom[j].tag = "#text" => TextValue(dom[j].value) # label

\* the list extractSectionList reads its items from, NoElement without heading
SelectedList ==
    IF ~HasText(label) THEN NoElement
    ELSE LET k == CHOOSE j \in 1..Len(dom) : HeadingAt(j)
             container == ContainerFrom(dom, ParentElement(dom, k))
         IN IF container = NoElement THEN NoElement ELSE QuerySelector(dom, container, "ul")

\* the li children of list ul whose trimmed text is not empty, in order
NonEmptyItemChildren(ul) ==
    SelectSeq(NodesOf(dom),
              LAMBDA j : /\ j \in Descendants(dom, ul)
                         /\ dom[j].tag = "li"
                         /\ ParentElement(dom, j) = ul
                         /\ Trim(TextContent(dom, j)) # <<>>)

TrimmedTexts(items) == <<>> \o [k \in 1..Len(items) |-> Trim(TextContent(dom, items[k]))]

\* C12: extractSectionList returns the trimmed texts of the non-empty li children
\* of the list it selected, one entry per child, in the order of the list
C12_ItemsAreItemChildren ==
    (out.op = "extractSectionList" /\ SelectedList # NoElement)
        => out.value = TrimmedTexts(NonEmptyItemChildren(SelectedList))

\* the selected list has a list nested in one of its items
SelectedListNested ==
    \E j \in Descendants(dom, SelectedList) : dom[j].tag = "ul"

\* the same for a selected list without nested list
C12_ItemsOfFlatList ==
    (out.op = "extractSectionList" /\ SelectedList # NoElement /\ ~SelectedListNested)
        => out.value = TrimmedTexts(NonEmptyItemChildren(SelectedList))

\* a heading followed by a list of three items and an empty one: the three items
C12_WitnessThreeItems ==
    /\ out.op = "extractSectionList"
    /\ label = <<"Detection">>
    /\ out.value = << <<"tag", " ", "X">>, <<"tag", " ", "Y">>, <<"tag", " ", "Z">> >>

\* a list with a nested list: the nested item is an entry of its own, and its
\* text is also part of the entry of its parent item
C12_WitnessNested ==
    /\ out.op = "extractSectionList"
    /\ out.value = << <<"stop", " ", "now">>, <<"now">> >>

\* the text nodes from "Relevant Documentation" (its first occurrence, excluded)
\* to the next other section title (excluded) or the end of the document
LinkTextNodes ==
    LET texts == TextNodesOf(dom)
        heads == {k \in 1..Len(texts) :
                    TextValue(dom[texts[k]].value) = RELEVANT_DOCUMENTATION}
        first == CHOOSE k \in heads : \A j \in heads : k <= j
        stops == {k \in (first + 1)..Len(texts) :
                    /\ TextValue(dom[texts[k]].value) \in SECTION_TITLES
                    /\ TextValue(dom[texts[k]].value) # RELEVANT_DOCUMENTATION}
        last == IF stops = {} THEN Len(texts)
                ELSE (CHOOSE k \in stops : \A j \in stops : k <= j) - 1
    IN IF heads = {} THEN <<>>
       ELSE SelectSeq(SubSeq(texts, first + 1, last),
                      LAMBDA n : TextValue(dom[n].value) # <<>>)

\* the anchors met, in the order the collector meets them, an anchor once for
\* each text node whose parent element holds it
RECURSIVE AnchorsMet(_)
AnchorsMet(nodes) ==
    IF nodes = <<>> THEN <<>>
    ELSE SelectSeq(AnchorsWithHref(dom, ParentElement(dom, nodes[1])),
                   LAMBDA a : dom[a].href # <<>>)
         \o AnchorsMet(Tail(nodes))

\* the links of the anchors met, repetitions included
LinksMet ==
    LET met == AnchorsMet(LinkTextNodes)
    IN <<>> \o [k \in 1..Len(met) |->
                  [title |-> AnchorTitle(dom, met[k]), url |-> FullUrl(dom[met[k]].href)]]

\* the place in LinksMet where url is met first
FirstMet(url) ==
    CHOOSE k \in 1..Len(LinksMet) :
        /\ LinksMet[k].url = url
        /\ \A j \in 1..(k - 1) : LinksMet[j].url # url

\* C13: extractDocumentationLinks returns no two links with the same url; every
\* url met is in the result once, with the title it had when it was met first,
\* and the links are in the order in which their urls were met first
C13_LinksDedupedFirstWins ==
    out.op = "extractDocumentationLinks" =>
        LET links == out.value
        IN /\ \A j, k \in 1..Len(links) : links[j].url = links[k].url => j = k
           /\ \A k \in 1..Len(LinksMet) : \E j \in 1..Len(links) : links[j].url = LinksMet[k].url
           /\ \A j \in 1..Len(links) :
                 /\ \E k \in 1..Len(LinksMet) : LinksMet[k].url = links[j].url
                 /\ links[j] = LinksMet[FirstMet(links[j].url)]
           /\ \A j, k \in 1..Len(links) :
                 j < k => FirstMet(links[j].url) < FirstMet(links[k].url)

\* the same page is linked with a relative and with an absolute href and with two
\* titles, and the anchors are met twice: one link, with the first title
C13_Witness ==
    /\ out.op = "extractDocumentationLinks"
    /\ \E j, k \in 1..Len(LinksMet) :
          /\ j < k
          /\ LinksMet[j].url = LinksMet[k].url
          /\ LinksMet[j].title # LinksMet[k].title
          /\ LinksMet[j] \in Range(out.value)
          /\ LinksMet[k] \notin Range(out.value)
    /\ Len(out.value) < Len(LinksMet)

(***************************************************************************)
(* Properties of slugFromUrl and of the records                            *)
(***************************************************************************)
\* the path of sUrl as the URL parser reads it
PathOfSUrl == Pathname(sUrl)

\* the place of the last segment name of the path of sUrl, 0 if it has none
LastSegmentAt ==
    LET named == {k \in 1..Len(PathOfSUrl) : PathOfSUrl[k] # "/"}
    IN IF named = {} THEN 0 ELSE CHOOSE k \in named : \A j \in named : j <= k

\* C14: slugFromUrl returns the last non-empty segment of the path of a URL it
\* can parse, whatever slashes, query string or fragment follow that segment,
\* and returns its argument unchanged when it cannot parse it
C14_SlugIsLastSegment ==
    out.op = "slugFromUrl" =>
        /\ (CanParse(sUrl) /\ LastSegmentAt # 0) => out.value = <<PathOfSUrl[LastSegmentAt]>>
        /\ ~CanParse(sUrl) => out.value = sUrl

\* https://hub.pointfive.co/hub/inefficiencies/idle-ec2/ gives idle-ec2
C14_Witness ==
    /\ out.op = "slugFromUrl"
    /\ sUrl = <<BASE_URL, INEFF, "idle-ec2", "/">>
    /\ out.value = <<"idle-ec2">>

\* a string that is no URL comes back unchanged
C14_WitnessUnparsed ==
    /\ out.op = "slugFromUrl"
    /\ sUrl = RelHref("a")
    /\ out.value = sUrl

\* the records the handler has emitted: the items of the batch, and the record
\* sent in answer to a request with a url parameter
EmittedRecords ==
    Range(results)
    \cup {responses[k].record : k \in {j \in 1..Len(responses) :
                                          UrlGiven /\ responses[j].status = 200}}

\* C15: every emitted record has an id that is a non-empty string and a
\* scraped_at that is present and parses as a timestamp
C15_IdAndScrapedAtWellFormed ==
    \A r \in EmittedRecords :
        /\ IsString(r.id)
        /\ r.id # <<>>
        /\ r.scraped_at # Null
        /\ ~DateParse(r.scraped_at).nan

\* the part of it that holds: the id is a string, not empty when the path of the
\* source URL has a segment, and scraped_at parses
C15_WellFormedWhenPathHasSegment ==
    \A r \in EmittedRecords :
        /\ IsString(r.id)
        /\ (\E k \in 1..Len(Pathname(r.source.url)) : Pathname(r.source.url)[k] # "/")
              => r.id # <<>>
        /\ r.scraped_at # Null
        /\ ~DateParse(r.scraped_at).nan

\* the record of a URL whose path is one slash has the empty string as id
C15_WitnessEmptyId ==
    /\ urlParam = <<BASE_URL, "/">>
    /\ \E r \in EmittedRecords : r.id = <<>> /\ r.source.url = urlParam

\* C16: in every emitted record detection_signals, remediation_actions,
\* documentation_links and tags are arrays, and tags is the empty array
C16_ListFieldsAreArrays ==
    \A r \in EmittedRecords :
        /\ r.detection_signals.isArray
        /\ r.remediation_actions.isArray
        /\ r.documentation_links.isArray
        /\ r.tags.isArray
        /\ r.tags.items = <<>>

\* the record of a page without any section: the three lists are empty arrays
C16_Witness ==
    \E r \in EmittedRecords :
        /\ r.source.url = AbsHref("b")
        /\ r.detection_signals = JsArray(<<>>)
        /\ r.remediation_actions = JsArray(<<>>)
        /\ r.documentation_links = JsArray(<<>>)
        /\ r.tags = JsArray(<<>>)

\* the record of a page with every section: the lists have items, tags has none
C16_WitnessFull ==
    \E r \in EmittedRecords :
        /\ r.detection_signals.items # <<>>
        /\ r.remediation_actions.items # <<>>
        /\ r.documentation_links.items # <<>>
        /\ r.tags = JsArray(<<>>)

\* an absolute URL: it begins with a scheme and a host
IsAbsoluteUrl(u) == u # <<>> /\ u[1] \in Origins

\* C17: in every emitted record source.url and the url of every documentation
\* link are absolute URLs
C17_UrlsAreAbsolute ==
    \A r \in EmittedRecords :
        /\ IsAbsoluteUrl(r.source.url)
        /\ \A k \in 1..Len(r.documentation_links.items) :
              IsAbsoluteUrl(r.documentation_links.items[k].url)

\* the part of it that holds: source.url is absolute, and so is the url of every
\* link but those whose href begins with the letters http
C17_AbsoluteUnlessHttpFirst ==
    \A r \in EmittedRecords :
        /\ IsAbsoluteUrl(r.source.url)
        /\ \A k \in 1..Len(r.documentation_links.items) :
              \/ IsAbsoluteUrl(r.documentation_links.items[k].url)
              \/ r.documentation_links.items[k].url = <<HTTP_GUIDE>>

\* relative hrefs with and without a leading slash are stored resolved, the
\* relative href http-guide.html is stored as it is
C17_WitnessUnresolved ==
    \E r \in EmittedRecords :
        LET linkUrls == {r.documentation_links.items[k].url :
                        k \in 1..Len(r.documentation_links.items)}
        IN /\ <<BASE_URL, "/docs">> \in linkUrls
           /\ <<BASE_URL, "/", "guide">> \in linkUrls
           /\ <<HTTP_GUIDE>> \in linkUrls

(***************************************************************************)
(* Properties of validateScrapedData                                       *)
(***************************************************************************)
\* a value is missing: null, or the empty string
Missing(v) == v = Null \/ v = <<>>

\* the conditions under which a record is to be flagged: id or title missing or
\* no string, a source.url that does not look absolute, a documentation link
\* whose url is not absolute, a scraped_at that is missing or does not parse
ToBeFlagged(data) ==
    \/ Missing(data.id) \/ ~IsString(data.id)
    \/ Missing(data.title) \/ ~IsString(data.title)
    \/ ~Missing(data.source.url) /\ ~StartsWithHttp(data.source.url)
    \/ /\ data.documentation_links.isArray
       /\ \E k \in 1..Len(data.documentation_links.items) :
             /\ ~Missing(data.documentation_links.items[k].url)
             /\ ~IsAbsoluteUrl(data.documentation_links.items[k].url)
    \/ Missing(data.scraped_at) \/ DateParse(data.scraped_at).nan

\* C18: validateScrapedData reports a record invalid exactly when one of the
\* conditions holds, and reports a record as valid with an empty error list
C18_InvalidExactlyWhenFlagged ==
    out.op = "validateScrapedData" =>
        /\ out.value.isValid <=> ~ToBeFlagged(vData)
        /\ out.value.isValid => out.value.errors = <<>>

\* the same with "begins with the letters http" in the place of "is absolute"
\* for the url of a documentation link
C18_InvalidExactlyWhenNoHttpFirst ==
    out.op = "validateScrapedData" =>
        /\ out.value.isValid <=>
              ~ \/ Missing(vData.id) \/ ~IsString(vData.id)
                \/ Missing(vData.title) \/ ~IsString(vData.title)
                \/ ~Missing(vData.source.url) /\ ~StartsWithHttp(vData.source.url)
                \/ /\ vData.documentation_links.isArray
                   /\ \E k \in 1..Len(vData.documentation_links.items) :
                         /\ ~Missing(vData.documentation_links.items[k].url)
                         /\ ~StartsWithHttp(vData.documentation_links.items[k].url)
                \/ Missing(vData.scraped_at) \/ DateParse(vData.scraped_at).nan
        /\ out.value.isValid => out.value.errors = <<>>

\* a record whose only defect is the relative link url http-guide.html is valid
C18_WitnessRelativeLinkValid ==
    /\ out.op = "validateScrapedData"
    /\ vData.documentation_links.isArray
    /\ \E k \in 1..Len(vData.documentation_links.items) :
          vData.documentation_links.items[k].url = <<HTTP_GUIDE>>
    /\ out.value.isValid

\* a record with a relative link url after an absolute one is invalid, and the
\* error names index 1
C18_WitnessRelativeLinkInvalid ==
    /\ out.op = "validateScrapedData"
    /\ ~out.value.isValid
    /\ out.value.errors = << <<"Invalid documentation link URL at index ", "1">> >>

(***************************************************************************)
(* Properties of validation in the handler                                 *)
(***************************************************************************)
\* the record parsed from the page at url fails validation
FailsValidation(url) == ~ValidateScrapedData(DetailRecord(url)).isValid

\* C19: when the record of a fetched page fails validation, the batch loop
\* appends that very record to results and adds nothing to errors, and the
\* single URL branch answers 200 with that very record
C19_InvalidRecordStillEmitted ==
    [][ /\ (pc = "batch" /\ fPhase = "done" /\ fOutcome.ok /\ FailsValidation(urls[i + 1]))
            => /\ results' = Append(results, DetailRecord(urls[i + 1]))
               /\ errors' = errors
        /\ (pc = "single" /\ fPhase = "done" /\ fOutcome.ok /\ FailsValidation(urlParam))
            => responses' = <<RecordResponse(DetailRecord(urlParam))>> ]_vars

\* a batch has ended with a record that fails validation among its items and
\* without any error
C19_Witness ==
    /\ BatchFinished
    /\ errors = <<>>
    /\ \E k \in 1..Len(results) :
          /\ ~ValidateScrapedData(results[k]).isValid
          /\ results[k].title = Null
          /\ responses[1].items[k] = results[k]

\* a request with a url parameter was answered 200 with a record that fails
\* validation
C19_WitnessSingle ==
    /\ UrlGiven
    /\ pc = "finished"
    /\ responses[1].status = 200
    /\ ~ValidateScrapedData(responses[1].record).isValid

(***************************************************************************)
(* Properties of the list a heading selects                                *)
(***************************************************************************)
\* the first text node of the document whose trimmed value is the heading asked for
HeadingNode == CHOOSE k \in 1..Len(dom) : HeadingAt(k)

\* the lists that follow, and that precede, the heading in document order
ListsAfterHeading == {j \in (HeadingNode + 1)..Len(dom) : dom[j].tag = "ul"}
ListsBeforeHeading == {j \in 1..(HeadingNode - 1) : dom[j].tag = "ul"}

\* the items, as extractSectionList reads them, of the first list after the
\* heading; no item when no list follows it
ItemsOfFirstListAfterHeading ==
    IF ListsAfterHeading = {} THEN <<>>
    ELSE ItemTexts(dom, ListItemsOf(dom, CHOOSE j \in ListsAfterHeading :
                                             \A m \in ListsAfterHeading : j <= m))

\* C20: extractSectionList returns the items of the first list that follows the
\* heading in document order
C20_ItemsOfListAfterHeading ==
    (out.op = "extractSectionList" /\ HasText(label))
        => out.value = ItemsOfFirstListAfterHeading

\* the same for a heading that no list precedes
C20_ItemsOfListAfterFirstHeading ==
    (out.op = "extractSectionList" /\ HasText(label) /\ ListsBeforeHeading = {})
        => out.value = ItemsOfFirstListAfterHeading

\* a Detection section and a Remediation section, each with its list, side by
\* side in the body: the items returned for Remediation are those of Detection
C20_WitnessDetectionItems ==
    /\ out.op = "extractSectionList"
    /\ label = <<"Remediation">>
    /\ dom = HeadingBlock(<<"Detection", " ">>) \o ListBlock(DetectionItems)
             \o HeadingBlock(<<"\n", "Remediation">>) \o NestedListBlock
    /\ out.value = << <<"tag", " ", "X">>, <<"tag", " ", "Y">>, <<"tag", " ", "Z">> >>

\* a section in an element of its own after another list: its own items
C20_WitnessOwnContainer ==
    /\ out.op = "extractSectionList"
    /\ label = <<"Remediation">>
    /\ HasText(label)
    /\ ListsBeforeHeading # {}
    /\ out.value = << <<"resize">> >>
\* the node of the first "Relevant Documentation" text, and the node of the next
\* other section title after it (the end of the document when there is none)
DocumentationHeadingNode ==
    LET heads == {k \in 1..Len(dom) : /\ dom[k].tag = "#text"
                                      /\ TextValue(dom[k].value) = RELEVANT_DOCUMENTATION}
    IN IF heads = {} THEN Len(dom) + 1 ELSE CHOOSE k \in heads : \A j \in heads : k <= j
TerminatingHeadingNode ==
    LET stops == {k \in (DocumentationHeadingNode + 1)..Len(dom) :
                    /\ dom[k].tag = "#text"
                    /\ TextValue(dom[k].value) \in SECTION_TITLES
                    /\ TextValue(dom[k].value) # RELEVANT_DOCUMENTATION}
    IN IF stops = {} THEN Len(dom) + 1 ELSE CHOOSE k \in stops : \A j \in stops : k <= j

\* the anchors with a non-empty href between the two headings, and those outside
SectionAnchors ==
    {j \in (DocumentationHeadingNode + 1)..(TerminatingHeadingNode - 1) :
        dom[j].tag = "a" /\ dom[j].href # Null /\ dom[j].href # <<>>}
OutsideAnchors ==
    {j \in 1..Len(dom) : /\ dom[j].tag = "a" /\ dom[j].href # Null /\ dom[j].href # <<>>
                         /\ j \notin SectionAnchors}

\* C21: every link extractDocumentationLinks returns is the link of an anchor
\* that lies after the "Relevant Documentation" heading and before the next
\* other section title in document order
C21_LinksComeFromTheSection ==
    out.op = "extractDocumentationLinks" =>
        \A k \in 1..Len(out.value) :
            \E j \in SectionAnchors : FullUrl(dom[j].href) = out.value[k].url

\* the same when every text of the section lies in an element that holds no
\* anchor outside the section
C21_LinksComeFromTheSectionWhenEnclosed ==
    (/\ out.op = "extractDocumentationLinks"
     /\ \A n \in 1..Len(LinkTextNodes) :
           \A a \in OutsideAnchors :
               a \notin Descendants(dom, ParentElement(dom, LinkTextNodes[n])))
        => \A k \in 1..Len(out.value) :
              \E j \in SectionAnchors : FullUrl(dom[j].href) = out.value[k].url

\* a text of the section lies directly in the element that holds an anchor
\* before the heading and an anchor after the terminating heading: both links
\* are returned
C21_WitnessOutsideAnchors ==
    /\ out.op = "extractDocumentationLinks"
    /\ dom = StrayTextBlock
    /\ out.value = << [title |-> <<"Intro">>, url |-> <<BASE_URL, "/about">>],
                      [title |-> <<"Next">>, url |-> <<BASE_URL, "/hub">>] >>

\* links are returned and all of them come from the section
C21_WitnessEnclosed ==
    /\ out.op = "extractDocumentationLinks"
    /\ Len(out.value) >= 2
    /\ OutsideAnchors # {}
    /\ \A k \in 1..Len(out.value) :
          \E j \in SectionAnchors : FullUrl(dom[j].href) = out.value[k].url
\* the index pages fetched so far, in the order of their fetches
IndexFetches == SelectSeq(fetchLog, IsIndexUrl)

Discovering == pc \in {"discover", "discover_sleep"}

\* the k-th index fetch is that of page k: page 1 without the page parameter,
\* page k > 1 with the parameter set to k; at most 30 index pages are fetched
IndexFetchesInOrderUpToCap ==
    /\ \A k \in 1..Len(IndexFetches) :
          IndexFetches[k] = IF k = 1 THEN <<BASE_URL, "/hub">>
                            ELSE <<BASE_URL, "/hub", "?ffbc0c57_page=", ToString(k)>>
    /\ Len(IndexFetches) <= 30

\* an index page that came back without a detail link
FetchedPageWithoutLinks ==
    /\ pc = "discover"
    /\ fPhase = "done"
    /\ fOutcome.ok
    /\ \A k \in 1..Len(fOutcome.anchors) : INEFF \notin Range(fOutcome.anchors[k])

\* no index page is fetched in the step that follows a page without detail
\* links, nor once discovery is over
NoIndexFetchAfterEmptyPage ==
    (FetchedPageWithoutLinks \/ ~(Discovering \/ pc = "idle"))
        => IndexFetches' = IndexFetches

\* C22: discovery fetches the index pages in increasing page number from page 1
\* (page 1 without the page parameter), fetches no page after the first page
\* that yields no detail link, never fetches more than 30 pages, and always
\* terminates
C22_DiscoveryInOrderCappedAndTerminates ==
    /\ []IndexFetchesInOrderUpToCap
    /\ [][NoIndexFetchAfterEmptyPage]_vars
    /\ (Discovering ~> ~Discovering)

\* the order, the stop at the first page without links and the cap, without the
\* termination
C22_DiscoveryInOrderAndCapped ==
    /\ []IndexFetchesInOrderUpToCap
    /\ [][NoIndexFetchAfterEmptyPage]_vars

\* the termination alone
C22_DiscoveryTerminates == Discovering ~> ~Discovering

\* thirty index pages were fetched and discovery is over
C22_WitnessCap ==
    /\ ~Discovering
    /\ Len(IndexFetches) = 30

\* discovery stopped at a page without links before the cap, after a failed fetch
C22_WitnessStopAtEmptyPage ==
    /\ ~Discovering
    /\ pc # "idle"
    /\ indexFailures > 0
    /\ Len(IndexFetches) \in 2..3

\* the body of an index page is being read long after the fetch timeout
C22_WitnessBodyHangs ==
    /\ pc = "discover"
    /\ fPhase = "body"
    /\ fClock = "late"
    /\ ~fTimer
\* C23: every index-page fetch but the first starts after the polite delay that
\* followed the end of the previous index-page fetch, whether that one returned
\* a page or failed
C23_DelayBeforeIndexFetch ==
    (pc = "discover" /\ Pending /\ page > 1) => gap = "delay"

\* the part the code keeps: the delay elapses when no index fetch has failed
C23_DelayAfterFetchedIndexPage ==
    (pc = "discover" /\ Pending /\ page > 1 /\ indexFailures = 0) => gap = "delay"

\* the fetch of page 2 is pending without a delay after the fetch of page 1 failed
C23_WitnessNoDelayAfterFailure ==
    /\ pc = "discover"
    /\ Pending
    /\ page = 2
    /\ indexFailures = 1
    /\ gap = "nodelay"

\* the fetch of page 2 is pending after page 1 was fetched and the delay elapsed
C23_WitnessDelay ==
    /\ pc = "discover"
    /\ Pending
    /\ page = 2
    /\ indexFailures = 0
    /\ gap = "delay"
\* the heading elements of the document, and its non-empty texts in document order
HeadingElements == {k \in 1..Len(dom) : dom[k].tag \in {"h1", "h2", "h3", "h4", "h5", "h6"}}
FirstLevelHeadings == {k \in 1..Len(dom) : dom[k].tag = "h1"}
NonEmptyTexts == SelectSeq(doc, LAMBDA v : Trim(v) # <<>>)
FallbackTitle == IF NonEmptyTexts = <<>> THEN Null ELSE Trim(NonEmptyTexts[1])

C24_WitnessSecondLevelHeading ==
    /\ out.op = "title"
    /\ dom = ParagraphBlock(<<"idle", " ", "nodes">>) \o HeadingBlock(<<"Detection">>)
    /\ out.value = <<"idle", " ", "nodes">>

\* an h1 without text before a paragraph: the title is the text of the paragraph
C24_WitnessEmptyH1 ==
    /\ out.op = "title"
    /\ dom = <<Element("h1", 1)>> \o ParagraphBlock(<<"idle", " ", "nodes">>)
    /\ out.value = <<"idle", " ", "nodes">>

\* an h1 of whitespace before a paragraph: the title is the empty string
C24_WitnessBlankH1 ==
    /\ out.op = "title"
    /\ NonEmptyTexts # <<>>
    /\ out.value = <<>>
\* the fetch of an index page has thrown
IndexFetchFailed == pc = "discover" /\ fPhase = "done" /\ ~fOutcome.ok

\* the step after a failed index fetch: the links collected so far are kept, no
\* answer is sent at the failure, and the next page is fetched unless the failed
\* page was the last the loop tries
DiscoveryGoesOnAfterFailure ==
    IndexFetchFailed =>
        /\ page' = page + 1
        /\ urlsSet' = urlsSet
        /\ page < 30 => /\ pc' = "discover"
                        /\ fetchLog' = Append(fetchLog, IndexUrl(page + 1))
                        /\ responses' = responses
        /\ page >= 30 => ~Discovering'

\* once discovery has returned, urls is sorted and holds no url twice, every url
\* of it was collected, and without a positive limit it holds every url collected
DiscoveryReturnedSortedList ==
    (pc \in {"batch", "batch_sleep", "finished"} /\ ~SingleUrlMode(urlParam)) =>
        /\ \A j, k \in 1..Len(urls) : j < k => StrLess(urls[j], urls[k])
        /\ Range(urls) \subseteq Range(urlsSet)
        /\ (limit.nan \/ limit.val <= 0) => Range(urls) = Range(urlsSet)
        /\ (~limit.nan /\ limit.val > 0) =>
              Len(urls) = IF Len(urlsSet) < limit.val THEN Len(urlsSet) ELSE limit.val

NoDiscoveryErrorAnswer ==
    \A k \in 1..Len(responses) :
        /\ responses[k].error # "Failed to discover inefficiency URLs"
        /\ ~SingleUrlMode(urlParam) => responses[k].status = 200

\* C25: a failed index-page fetch does not abort discovery: the loop goes on to
\* the next page, the links collected from other pages are kept, discovery
\* returns a sorted list, and no batch request is answered with the error
\* "Failed to discover inefficiency URLs"
C25_FailedIndexFetchDoesNotAbort ==
    /\ [][DiscoveryGoesOnAfterFailure]_vars
    /\ [][Discovering => Range(urlsSet) \subseteq Range(urlsSet')]_vars
    /\ []DiscoveryReturnedSortedList
    /\ []NoDiscoveryErrorAnswer

\* page 1 was fetched, page 2 failed, page 3 came back without links: discovery
\* returned the links of page 1
C25_Witness ==
    /\ pc = "batch"
    /\ indexFailures = 1
    /\ Len(IndexFetches) = 3
    /\ site.n = 1
    /\ urls # <<>>
    /\ Range(urls) = Range(urlsSet)

\* the fetch of page 1 failed and page 2 came back without links: discovery
\* returned the empty list and the request is answered with an empty batch
C25_WitnessEmpty ==
    /\ pc = "finished"
    /\ indexFailures = 1
    /\ urls = <<>>
    /\ Len(responses) = 1
    /\ responses[1].status = 200
    /\ responses[1].total = 0

\* the fetch of page 30 failed: discovery returned the links of pages 1 to 29
C25_WitnessLastPageFailed ==
    /\ ~Discovering
    /\ indexFailures = 1
    /\ Len(IndexFetches) = 30
    /\ page = 31
    /\ urls # <<>>
\* a run of save_to_s3 that reached the upload of an array has ended; a run of
\* the batch script has ended
SaveOfArrayDone ==
    /\ sPc = "done"
    /\ sAnswer.kind = "response"
    /\ sPuts # <<>>
    /\ sPuts[1].key = SummaryKey
ScriptDone == sPc = "done" /\ sAnswer.kind = "exit"

\* the uploads that succeeded, and the uploads of items that failed
PutsOk == {k \in 1..Len(sPuts) : sPuts[k].state = "ok"}
ItemPutsFailed == {k \in 2..Len(sPuts) : sPuts[k].state = "failed"}

\* the name part of the file of item k: its trimmed id, "item-k" without one
NamePartOf(k) ==
    IF IsString(sData[k].id) /\ Trim(sData[k].id) # <<>> THEN Trim(sData[k].id)
    ELSE <<"item-", ToString(k)>>

\* every item is an object whose id, when it has one, is a string
IdsAreStrings ==
    \A k \in 1..Len(sData) : sData[k].isObject /\ sData[k].id # NonString

\* the uploads of an array by save_to_s3: the summary first; if it failed,
\* nothing else and a failure answer; otherwise one upload per item in array
\* order, whatever the outcome of the uploads before it, and a success answer
\* that counts the uploads that succeeded
ArrayUploadedItemByItem ==
    /\ sPuts[1].state = "failed" => (Len(sPuts) = 1 /\ sAnswer.status = 500)
    /\ sPuts[1].state = "ok" =>
          /\ Len(sPuts) = 1 + Len(sData)
          /\ \A k \in 1..Len(sData) :
                sPuts[k + 1].key =
                    <<PREFIX, "scraped_">> \o NamePartOf(k) \o <<"_", TimestampSlug, ".json">>
          /\ sAnswer.status = 200
          /\ sAnswer.filesUploaded = Cardinality(PutsOk)

\* C26: when save_to_s3 receives an array, the summary is uploaded first and
\* then one file per item in array order; a failed upload of an item is skipped
\* and the following items are still uploaded; the answer is a success whose
\* filesUploaded is the number of uploads that succeeded; a failed upload of the
\* summary fails the request before any item is uploaded
C26_SummaryThenEveryItem == SaveOfArrayDone => ArrayUploadedItemByItem

\* the same for arrays of objects whose ids are strings or absent
C26_SummaryThenEveryItemWithStringIds ==
    (SaveOfArrayDone /\ IdsAreStrings) => ArrayUploadedItemByItem

\* the upload of the first of two items failed, the second was uploaded, and the
\* answer is a success with two files
C26_WitnessItemSkipped ==
    /\ SaveOfArrayDone
    /\ Len(sData) = 2
    /\ Len(sPuts) = 3
    /\ sPuts[2].state = "failed"
    /\ sPuts[3].state = "ok"
    /\ sAnswer.status = 200
    /\ sAnswer.filesUploaded = 2

\* the summary and the first item were uploaded, the id of the second item is
\* a number: the answer is a failure and the item was never uploaded
C26_WitnessNumberId ==
    /\ SaveOfArrayDone
    /\ Len(sData) = 2
    /\ sData[2].id = NonString
    /\ Len(sPuts) = 2
    /\ PutsOk = {1, 2}
    /\ sAnswer.status = 500

\* C27: within one save request or one run of the batch script every upload
\* uses a key of its own, so no stored object is overwritten
C27_KeysAreDistinct ==
    \A j, k \in 1..Len(sPuts) : j # k => sPuts[j].key # sPuts[k].key

\* the same when the names of the items differ from each other and from the
\* name of the summary of the script
C27_KeysAreDistinctWhenNamesDiffer ==
    (/\ IdsAreStrings
     /\ \A j, k \in 1..Len(sData) : j # k => NamePartOf(j) # NamePartOf(k)
     /\ \A k \in 1..Len(sData) : NamePartOf(k) # <<"hub_summary">>)
        => \A j, k \in 1..Len(sPuts) : j # k => sPuts[j].key # sPuts[k].key

\* save_to_s3 uploaded two items with the same id under one key: the second
\* upload replaced the object of the first
C27_WitnessSameId ==
    /\ SaveOfArrayDone
    /\ Len(sData) = 2
    /\ sData[1].id = sData[2].id
    /\ sData[1].id = <<"a">>
    /\ PutsOk = {1, 2, 3}
    /\ sPuts[2].key = sPuts[3].key

\* the batch script uploaded an item under the key of its summary
C27_WitnessSummaryReplaced ==
    /\ ScriptDone
    /\ Len(sPuts) >= 2
    /\ PutsOk = 1..Len(sPuts)
    /\ sPuts[2].key = sPuts[1].key

\* an item without id and an item whose id is the fallback name of the other
C27_WitnessFallbackName ==
    /\ sPc = "done"
    /\ Len(sData) = 2
    /\ sData[1].id = <<"item-", "2">>
    /\ sData[2].id = Null
    /\ Len(sPuts) = 3
    /\ sPuts[2].key = sPuts[3].key

\* three uploads with three keys
C27_WitnessDistinct ==
    /\ sPc = "done"
    /\ Len(sPuts) = 3
    /\ PutsOk = {1, 2, 3}
    /\ \A j, k \in 1..3 : j # k => sPuts[j].key # sPuts[k].key

\* the runs of the batch script: the summary is uploaded before any item; when
\* the fetch or the upload of the summary failed no item is uploaded and the
\* exit code is 1; when uploads of items failed every item was attempted and the
\* exit code is 1; the exit code is 0 only when every upload succeeded
ScriptUploadsAndExitCode ==
    /\ (sPc \in {"script_summary", "script_item"} \/ ScriptDone) =>
          (sPuts # <<>> => sPuts[1].key = ScriptSummaryKey)
    /\ (ScriptDone /\ (sPuts = <<>> \/ sPuts[1].state = "failed")) =>
          (Len(sPuts) <= 1 /\ sAnswer.status = 1)
    /\ (ScriptDone /\ ItemPutsFailed # {}) =>
          (Len(sPuts) = 1 + Len(sData) /\ sAnswer.status = 1)
    /\ (ScriptDone /\ sAnswer.status = 0) =>
          (Len(sPuts) = 1 + Len(sData) /\ PutsOk = 1..Len(sPuts))

C28_ScriptExitCodeWithStringIds ==
    IdsAreStrings => ScriptUploadsAndExitCode

\* the upload of the first item failed, the second was uploaded, exit code 1
C28_WitnessPartialFailure ==
    /\ ScriptDone
    /\ Len(sData) = 2
    /\ Len(sPuts) = 3
    /\ sPuts[2].state = "failed"
    /\ sPuts[3].state = "ok"
    /\ sAnswer.status = 1

\* the upload of the first item failed and the id of the second is a number:
\* the process exits with code 1 and the second item was never attempted
C28_WitnessNumberId ==
    /\ ScriptDone
    /\ Len(sData) = 2
    /\ sData[2].id = NonString
    /\ Len(sPuts) = 2
    /\ sPuts[2].state = "failed"
    /\ sAnswer.status = 1

\* every upload succeeded and the process exits normally
C28_WitnessAllUploaded ==
    /\ ScriptDone
    /\ Len(sData) = 2
    /\ PutsOk = {1, 2, 3}
    /\ sAnswer.status = 0
\* the limit asked for when the limit parameter is a positive integer, else the
\* default of 5
RequestedLimit ==
    CASE limitParam = <<"1">> -> 1
      [] limitParam = <<"2">> -> 2
      [] limitParam = <<"1", "0">> -> 10
      [] OTHER -> 5

\* C29: a batch request processes no more detail pages than the limit asked
\* for, and no more than 5 when the limit parameter is absent, zero, negative
\* or not a number
C29_ProcessedWithinLimit ==
    InBatchLoop =>
        /\ Len(urls) <= RequestedLimit
        /\ Len(DetailFetches(fetchLog)) <= RequestedLimit

\* the same for a limit parameter that is absent or a positive integer
C29_ProcessedWithinPositiveLimit ==
    (InBatchLoop /\ (limitParam = Null \/ (~limit.nan /\ limit.val > 0))) =>
        /\ Len(urls) <= RequestedLimit
        /\ Len(DetailFetches(fetchLog)) <= RequestedLimit

\* limit=0 on a site with six detail links: all six are processed
C29_WitnessZero ==
    /\ InBatchLoop
    /\ limitParam = <<"0">>
    /\ Len(urls) = 6

\* a negative limit and a limit that is not a number: all six as well
C29_WitnessNegative ==
    /\ InBatchLoop
    /\ limitParam = <<"-", "1">>
    /\ Len(urls) = 6
C29_WitnessNotANumber ==
    /\ InBatchLoop
    /\ limitParam = <<"a">>
    /\ Len(urls) = 6

\* no limit parameter on the same site: five of the six are processed
C29_WitnessDefault ==
    /\ InBatchLoop
    /\ limitParam = Null
    /\ Cardinality(Range(urlsSet)) = 6
    /\ Len(urls) = 5

\* a request was received by the handler
RequestReceived == pc # "idle"

\* a response of one of the three kinds the handler sends: the record, the
\* batch summary, or an error with its details
RecordAnswer(r) == r.status = 200 /\ UrlGiven /\ r = RecordResponse(DetailRecord(urlParam))
BatchAnswer(r) == r.status = 200 /\ ~UrlGiven /\ r = BatchResponse(urls, results, errors)
ErrorAnswer(r) == r.status = 500 /\ r.error # "" /\ r.details # <<>> /\ r.details # Null

\* never two responses; one response exactly when the handler has returned,
\* of one of the three kinds
OneResponseWhenReturned ==
    /\ Len(responses) <= 1
    /\ (pc = "finished") <=> (Len(responses) = 1)
    /\ \A k \in 1..Len(responses) :
          RecordAnswer(responses[k]) \/ BatchAnswer(responses[k]) \/ ErrorAnswer(responses[k])

\* C30: every request gets exactly one response, a 200 with the record or the
\* batch summary or a 500 with error details: never two, and never none
C30_ExactlyOneResponse ==
    /\ []OneResponseWhenReturned
    /\ (RequestReceived ~> (Len(responses) = 1))

\* never two responses, and one when the handler has returned
C30_AtMostOneResponse == OneResponseWhenReturned

\* every request is answered
C30_EveryRequestAnswered == RequestReceived ~> (Len(responses) = 1)

\* the body of a detail page of the batch is being read long after the fetch
\* timeout, and nothing was sent
C30_WitnessNoResponse ==
    /\ pc = "batch"
    /\ i > 0
    /\ fPhase = "body"
    /\ fClock = "late"
    /\ ~fTimer
    /\ responses = <<>>

\* the three kinds of response, each sent alone
C30_WitnessRecord == Len(responses) = 1 /\ RecordAnswer(responses[1])
C30_WitnessBatch ==
    /\ Len(responses) = 1
    /\ BatchAnswer(responses[1])
    /\ Len(results) > 0
    /\ Len(errors) > 0
C30_WitnessError == Len(responses) = 1 /\ ErrorAnswer(responses[1])
====
